---- MODULE Spec2Model ----
(***************************************************************************)
(* A model of the admission-control and scoring core of the EcoSort        *)
(* backend: the sliding-window RateLimiter, the API-key decorator, the     *)
(* text sanitizer and the keyword scorer (security.py, config.py,          *)
(* app_production.py, classification_core.py).                             *)
(*                                                                         *)
(* Python strings are modelled as sequences of one-character strings, so   *)
(* that strip, slicing, replace, lower and the substring test act on       *)
(* characters. An Optional[str] is a record [some, val].                   *)
(*                                                                         *)
(* Specifications:                                                         *)
(*   SpecLimiter     one RateLimiter, each is_allowed call one step        *)
(*   SpecConcurrent  one RateLimiter, the statements of concurrent         *)
(*                   is_allowed calls interleaved                          *)
(*   SpecGate        the wrapper of require_api_key on its own             *)
(*   SpecText        the text path: sanitize_text_input and                *)
(*                   classify_text_content                                 *)
(*   SpecLibrary     direct calls of the two scorers and of validate_file  *)
(*   SpecMetrics     one MetricsCollector, whole record_ calls             *)
(*   SpecMetricsConcurrent  one MetricsCollector, the statements of        *)
(*                   concurrent record_ calls interleaved                  *)
(*   SpecMonitor     requests through the monitor_requests decorator       *)
(*   SpecAlerts      one AlertManager, each check_alerts call one step     *)
(*   SpecTwoClients  the two endpoints' limiters, requests of two clients      *)
(*   Spec            the application: its configuration and the two        *)
(*                   classify endpoints behind their decorators            *)
(***************************************************************************)
EXTENDS Integers, Sequences, FiniteSets, TLC

VARIABLES
    now,            \* the value time.time() returns, in clock ticks
    max_requests,   \* RateLimiter.max_requests (Config.RATE_LIMIT_PER_MINUTE)
    requests,       \* RateLimiter.requests: key -> deque of timestamps
    lim_last,       \* the last is_allowed call: key, time, result, and what preceded it
    allowed_log,    \* history: per key, the times of the allowed calls still within the window
    last_call,      \* history: per key, the latest is_allowed call: its time (-1: none) and result
    thr,            \* per request thread, its position in is_allowed and its locals
    app_config,     \* current_app.config: the Flask application's configuration dict
    gate_last,      \* the last request through require_api_key: its headers and outcome
    text,           \* the 'text' value of a request body, as the client sent it
    text_parts,     \* the number of fragments the client has put into text
    text_out,       \* what the text path made of it: the sanitized value and the result
    config,         \* the Config object of the process (config = get_config())
    limiter,        \* per endpoint, the RateLimiter its rate_limit decorator created
    resp,           \* the last request to a classify endpoint and the response to it
    lib_call,       \* the last direct call of a scorer or of validate_file, and its result
    metrics,        \* the MetricsCollector of monitoring.py (metrics = MetricsCollector())
    mthr,           \* per request thread, its position in a record_ method and its locals
    serial,         \* history: the collector as it would be had the calls run one after another
    alert_manager,  \* the AlertManager of monitoring.py (alert_manager = AlertManager())
    alert_log       \* history: every alert check_alerts has emitted, and its last call

limVars == <<now, max_requests, requests, lim_last, allowed_log, last_call>>

gateVars == <<app_config, gate_last>>

textVars == <<text, text_parts, text_out>>
\* The process: its Config object, the limiter of each endpoint, the last response.
pipeVars == <<config, limiter, resp>>
libVars == <<lib_call>>
metVars == <<metrics, mthr, serial>>
alertVars == <<alert_manager, alert_log>>

vars == <<limVars, thr, gateVars, textVars, pipeVars, libVars, metVars, alertVars>>

(***************************************************************************)
(* Bounds of the model.                                                    *)
(***************************************************************************)
\* The clock runs from 0 to MaxTime ticks.
MaxTime == 5
\* max_requests is configured in 0..MaxRequests.
MaxRequests == 2
\* The length of the limiter's window, in clock ticks.
WindowTicks == 2
\* A request text is put together from at most MaxFragments fragments.
MaxFragments == 2
MaxCalls == 3

\* Client keys (request.remote_addr / X-Forwarded-For).
Keys == {"ip1", "ip2"}

\* The request threads of the server that run is_allowed at the same time, and the
\* client key they all serve.
Threads == {"t1", "t2"}
ConcKeys == {"ip1"}

(***************************************************************************)
(* Python values: Optional[str] and the str methods the code uses.         *)
(***************************************************************************)
None == [some |-> FALSE, val |-> <<>>]
Some(s) == [some |-> TRUE, val |-> s]

\* The truth value of an Optional[str]: None and "" are false.
Truthy(o) == o.some /\ o.val # <<>>

\* a or b
Or(a, b) == IF Truthy(a) THEN a ELSE b

Min(S) == CHOOSE x \in S : \A y \in S : x <= y

\* s[i:i+len(p)] == p, for a 1-based position i.
StartsAt(s, p, i) ==
    /\ i >= 1
    /\ i + Len(p) - 1 <= Len(s)
    /\ s[i] = p[1]
    /\ SubSeq(s, i, i + Len(p) - 1) = p

\* p in s
Contains(s, p) == \E i \in 1..(Len(s) - Len(p) + 1) : StartsAt(s, p, i)

\* s.replace(p, r) from position i on, for a non-empty p: the occurrences of p are
\* found left to right without overlap, and the result is not scanned again.
RECURSIVE ReplaceFrom(_, _, _, _)
ReplaceFrom(s, p, r, i) ==
    LET hits == {j \in i..(Len(s) - Len(p) + 1) : StartsAt(s, p, j)} IN
    IF hits = {} THEN SubSeq(s, i, Len(s))
    ELSE LET j == Min(hits) IN
         SubSeq(s, i, j - 1) \o r \o ReplaceFrom(s, p, r, j + Len(p))

\* s.replace(p, r)
Replace(s, p, r) == ReplaceFrom(s, p, r, 1)

\* The characters str.strip() removes (those that occur in the model's texts).
Whitespace == {" ", "\t", "\n"}

\* s.strip()
Strip(s) ==
    LET solid == {i \in 1..Len(s) : s[i] \notin Whitespace} IN
    IF solid = {} THEN <<>>
    ELSE SubSeq(s, Min(solid), CHOOSE i \in solid : \A j \in solid : j <= i)

\* s[:n]
Slice(s, n) == SubSeq(s, 1, IF Len(s) < n THEN Len(s) ELSE n)

UpperLetters == <<"A", "B", "C", "D", "E", "F", "G", "H", "I", "J", "K", "L", "M", "N", "O", "P", "Q", "R", "S", "T", "U", "V", "W", "X", "Y", "Z">>
LowerLetters == <<"a", "b", "c", "d", "e", "f", "g", "h", "i", "j", "k", "l", "m", "n", "o", "p", "q", "r", "s", "t", "u", "v", "w", "x", "y", "z">>

\* The letter of `to` at the place c has in `from`; c itself when c is not in `from`.
MapChar(c, from, to) ==
    IF \E i \in 1..Len(from) : from[i] = c
    THEN to[CHOOSE i \in 1..Len(from) : from[i] = c]
    ELSE c

\* s.lower() and s.upper(), on ASCII letters.
Lower(s) == [i \in 1..Len(s) |-> MapChar(s[i], UpperLetters, LowerLetters)]
Upper(s) == [i \in 1..Len(s) |-> MapChar(s[i], LowerLetters, UpperLetters)]

\* c * n
Repeat(c, n) == [i \in 1..n |-> c]

(***************************************************************************)
(* RateLimiter (security.py)                                               *)
(***************************************************************************)
\* self.window_seconds = window_minutes * 60, here in clock ticks.
window_seconds == WindowTicks

\* self.requests[key] of a defaultdict(deque): a missing key reads as an empty deque.
Deque(reqs, key) == IF key \in DOMAIN reqs THEN reqs[key] ELSE <<>>

\* The test of the pruning loop: the front timestamp is older than window_start.
ExpiredNever(t, window_start) == FALSE
ExpiredInclusive(t, window_start) == t <= window_start
Expired(t, window_start) == t < window_start

\* while self.requests[key] and self.requests[key][0] < window_start: popleft()
RECURSIVE Prune(_, _)
Prune(q, window_start) ==
    IF q # <<>> /\ Expired(Head(q), window_start)
    THEN Prune(Tail(q), window_start)
    ELSE q

\* len(self.requests[key]) < self.max_requests
UnderLimitInclusive(q, limit) == Len(q) <= limit
UnderLimit(q, limit) == Len(q) < limit

\* The value is_allowed(key) returns at time t.
is_allowed(reqs, key, t, limit) ==
    UnderLimit(Prune(Deque(reqs, key), t - window_seconds), limit)

\* self.requests after is_allowed(key) at time t: the key exists afterwards (the
\* defaultdict creates it on the first read), its deque pruned, and t appended
\* when the call is allowed.
requests_after(reqs, key, t, limit) ==
    LET q == Prune(Deque(reqs, key), t - window_seconds)
        q2 == IF UnderLimit(q, limit) THEN Append(q, t) ELSE q
    IN [k \in (DOMAIN reqs) \cup {key} |-> IF k = key THEN q2 ELSE reqs[k]]

NoCall ==
    [key |-> "none", time |-> 0, allowed |-> FALSE, recent |-> 0, idle |-> FALSE,
     prev_denied |-> FALSE]

LimInit ==
    /\ now = 0
    /\ max_requests \in 0..MaxRequests
    /\ requests = <<>>
    /\ lim_last = NoCall
    /\ allowed_log = [k \in Keys |-> <<>>]
    /\ last_call = [k \in Keys |-> [time |-> -1, allowed |-> FALSE]]

\* The entries of a history log that are at most window_seconds old at time t.
RECURSIVE Recent(_, _)
Recent(log, t) ==
    IF log = <<>> THEN <<>>
    ELSE IF Head(log) >= t - window_seconds
         THEN <<Head(log)>> \o Recent(Tail(log), t)
         ELSE Recent(Tail(log), t)

\* time.time() advances.
Tick ==
    /\ now < MaxTime
    /\ now' = now + 1
    /\ allowed_log' = [k \in Keys |-> Recent(allowed_log[k], now + 1)]
    /\ UNCHANGED <<max_requests, requests, lim_last, last_call, thr, gateVars, textVars, pipeVars, libVars, metVars, alertVars>>

\* One call limiter.is_allowed(key). lim_last records the call together with what the
\* history says preceded it: recent, the number of allowed calls for the key at most
\* window_seconds ago; idle, whether the key's previous call is more than
\* window_seconds ago; prev_denied, whether that previous call was denied.
IsAllowedCall(key) ==
    LET ok == is_allowed(requests, key, now, max_requests) IN
    /\ requests' = requests_after(requests, key, now, max_requests)
    /\ lim_last' = [key |-> key, time |-> now, allowed |-> ok,
                    recent |-> Len(Recent(allowed_log[key], now)),
                    idle |-> /\ last_call[key].time >= 0
                             /\ last_call[key].time < now - window_seconds,
                    prev_denied |-> /\ last_call[key].time >= 0
                                    /\ ~last_call[key].allowed]
    /\ allowed_log' = [allowed_log EXCEPT ![key] = IF ok THEN Append(@, now) ELSE @]
    /\ last_call' = [last_call EXCEPT ![key] = [time |-> now, allowed |-> ok]]
    /\ UNCHANGED <<now, max_requests, thr, gateVars, textVars, pipeVars, libVars, metVars, alertVars>>

LimNext ==
    \/ Tick
    \/ \E key \in Keys : IsAllowedCall(key)

(***************************************************************************)
(* is_allowed run by several request threads at once. The method takes no  *)
(* lock, so the threads interleave between its statements: reading the     *)
(* clock (line 39), the test of the while loop (line 43), popleft (line    *)
(* 44), the length check (line 47) and append (line 48). Each statement is *)
(* taken as one step.                                                      *)
(***************************************************************************)
IdleThread ==
    [pc |-> "idle", key |-> "none", t |-> 0, result |-> "none", free |-> 0]

ThreadInit == thr = [th \in Threads |-> IdleThread]

\* The free slots of a key at time t: max_requests less the stored timestamps that the
\* pruning loop would keep.
FreeSlots(reqs, key, t, limit) == limit - Len(Prune(Deque(reqs, key), t - window_seconds))

\* Line 39-40: now = time.time(); window_start = now - self.window_seconds.
ReadClock(th, key) ==
    /\ thr[th].pc \in {"idle", "done"}
    /\ thr' = [thr EXCEPT ![th] = [pc |-> "loop", key |-> key, t |-> now,
                                   result |-> "none",
                                   free |-> FreeSlots(requests, key, now, max_requests)]]
    /\ UNCHANGED <<limVars, gateVars, textVars, pipeVars, libVars, metVars, alertVars>>

\* Line 43: the test of the while loop; reading self.requests[key] creates the key.
LoopTest(th) ==
    LET key == thr[th].key
        q == Deque(requests, key) IN
    /\ thr[th].pc = "loop"
    /\ requests' = [k \in (DOMAIN requests) \cup {key} |-> IF k = key THEN q ELSE requests[k]]
    /\ thr' = [thr EXCEPT ![th].pc =
                  IF q # <<>> /\ Expired(Head(q), thr[th].t - window_seconds)
                  THEN "pop" ELSE "check"]
    /\ UNCHANGED <<now, max_requests, lim_last, allowed_log, last_call, gateVars, textVars, pipeVars, libVars, metVars, alertVars>>

\* Line 44: popleft(); on a deque another thread has emptied it raises IndexError,
\* which ends the call.
PopLeft(th) ==
    LET key == thr[th].key IN
    /\ thr[th].pc = "pop"
    /\ IF requests[key] = <<>>
       THEN /\ thr' = [thr EXCEPT ![th].pc = "done", ![th].result = "IndexError"]
            /\ UNCHANGED requests
       ELSE /\ requests' = [requests EXCEPT ![key] = Tail(@)]
            /\ thr' = [thr EXCEPT ![th].pc = "loop"]
    /\ UNCHANGED <<now, max_requests, lim_last, allowed_log, last_call, gateVars, textVars, pipeVars, libVars, metVars, alertVars>>

\* Line 47: if len(self.requests[key]) < self.max_requests; line 51: return False.
LengthCheck(th) ==
    /\ thr[th].pc = "check"
    /\ thr' = [thr EXCEPT ![th] =
                  IF UnderLimit(requests[thr[th].key], max_requests)
                  THEN [@ EXCEPT !.pc = "append"]
                  ELSE [@ EXCEPT !.pc = "done", !.result = "denied"]]
    /\ UNCHANGED <<limVars, gateVars, textVars, pipeVars, libVars, metVars, alertVars>>

\* Line 48-49: self.requests[key].append(now); return True.
AppendNow(th) ==
    /\ thr[th].pc = "append"
    /\ requests' = [requests EXCEPT ![thr[th].key] = Append(@, thr[th].t)]
    /\ thr' = [thr EXCEPT ![th].pc = "done", ![th].result = "allowed"]
    /\ UNCHANGED <<now, max_requests, lim_last, allowed_log, last_call, gateVars, textVars, pipeVars, libVars, metVars, alertVars>>

\* time.time() advances while the threads run, until one window has passed.
ConcTick ==
    /\ now <= window_seconds
    /\ now' = now + 1
    /\ UNCHANGED <<max_requests, requests, lim_last, allowed_log, last_call, thr, gateVars, textVars, pipeVars, libVars, metVars, alertVars>>

ConcInit == LimInit /\ ThreadInit

ConcNext ==
    \/ ConcTick
    \/ \E th \in Threads, key \in ConcKeys : ReadClock(th, key)
    \/ \E th \in Threads : LoopTest(th)
    \/ \E th \in Threads : PopLeft(th)
    \/ \E th \in Threads : LengthCheck(th)
    \/ \E th \in Threads : AppendNow(th)

(***************************************************************************)
(* require_api_key (security.py)                                           *)
(***************************************************************************)
\* dict.get(name, default)
DictGet(d, name, default) == IF name \in DOMAIN d THEN d[name] ELSE default

\* The keys a process may be configured with, and the credentials a client may send.
ApiKeys == {<<"k", "1">>, <<"k", "2">>}
Credentials ==
    {None, Some(<<>>), Some(<<"k", "1">>), Some(<<"k", "2">>), Some(<<"B", "e", "a", "r", "e", "r", " ", "k", "1">>),
     Some(<<"B", "e", "a", "r", "e", "r", " ", "k", "2">>), Some(<<"B", "e", "a", "r", "e", "r", " ">>), Some(<<"b", "e", "a", "r", "e", "r", " ", "k", "1">>),
     Some(<<"k", "B", "e", "a", "r", "e", "r", " ", "1">>)}

\* Line 95: request.headers.get('X-API-Key') or request.headers.get('Authorization')
provided_key(headers) == Or(headers.x_api_key, headers.authorization)

\* Line 97: provided_key and provided_key.replace('Bearer ', '') == api_key
KeyMatchesNoStrip(provided, api_key) ==
    Truthy(provided) /\ provided.val = api_key.val
KeyMatchesAnyNonEmpty(provided, api_key) ==
    Truthy(provided)
KeyMatches(provided, api_key) ==
    Truthy(provided) /\ Replace(provided.val, <<"B", "e", "a", "r", "e", "r", " ">>, <<>>) = api_key.val

\* Line 91: if not api_key: the request passes without a check.
AuthDisabledNever(api_key) == FALSE
AuthDisabled(api_key) == ~Truthy(api_key)

\* The wrapper of require_api_key: TRUE when the wrapped handler is called, FALSE when
\* the wrapper answers 401 itself.
require_api_key(headers, cfg) ==
    LET api_key == DictGet(cfg, "API_KEY", None) IN
    \/ AuthDisabled(api_key)
    \/ KeyMatches(provided_key(headers), api_key)

NoGateCall == [called |-> FALSE, headers |-> [x_api_key |-> None, authorization |-> None],
               passed |-> FALSE]

\* The gate alone: the application configuration holds any key, an empty key, no key
\* (None) or no API_KEY entry at all.
GateInit ==
    /\ app_config \in {<<>>} \cup {[API_KEY |-> k] : k \in {None, Some(<<>>)} \cup {Some(a) : a \in ApiKeys}}
    /\ gate_last = NoGateCall

\* One request through the wrapper of require_api_key.
GateRequest(headers) ==
    /\ gate_last' = [called |-> TRUE, headers |-> headers,
                     passed |-> require_api_key(headers, app_config)]
    /\ UNCHANGED <<limVars, thr, app_config, textVars, pipeVars, libVars, metVars, alertVars>>

GateNext ==
    \E x \in Credentials, a \in Credentials :
        GateRequest([x_api_key |-> x, authorization |-> a])

(***************************************************************************)
(* sanitize_text_input (security.py)                                       *)
(***************************************************************************)
\* Line 164: text.strip()[:1000]
MaxTextLength == 1000

\* Line 167: dangerous_patterns
dangerous_patterns ==
    <<<<"<", "s", "c", "r", "i", "p", "t">>,
      <<"<", "/", "s", "c", "r", "i", "p", "t">>,
      <<"j", "a", "v", "a", "s", "c", "r", "i", "p", "t", ":">>,
      <<"o", "n", "l", "o", "a", "d", "=">>,
      <<"o", "n", "e", "r", "r", "o", "r", "=">>>>

\* Lines 169-170, for one pattern: the lower-case form is removed, then the upper-case.
RemovePatternLowerOnly(t, pattern) ==
    Replace(t, Lower(pattern), <<>>)
RemovePattern(t, pattern) ==
    Replace(Replace(t, Lower(pattern), <<>>), Upper(pattern), <<>>)

\* Lines 168-170: the loop over the patterns from the i-th on, each removed once, in order.
RECURSIVE RemovePatterns(_, _)
RemovePatterns(t, i) ==
    IF i > Len(dangerous_patterns) THEN t
    ELSE RemovePatterns(RemovePattern(t, dangerous_patterns[i]), i + 1)

\* Line 164: text.strip()[:1000]
StripAndLimitNoStrip(t) == Slice(t, MaxTextLength)
StripAndLimit(t) == Slice(Strip(t), MaxTextLength)

sanitize_text_input(t) ==
    IF t = <<>> THEN <<>>
    ELSE RemovePatterns(StripAndLimit(t), 1)

(***************************************************************************)
(* Python floats (IEEE 754 binary64) and the arithmetic classify_text_content *)
(* does with them. A float is a record [m, x] of value m * 2^x, m a natural  *)
(* number of exactly 53 bits (or 0). Natural numbers beyond the machine      *)
(* integers are little-endian sequences of limbs, without leading zeros.     *)
(***************************************************************************)
LimbBits == 14
Base == 2^LimbBits
Precision == 53

RECURSIVE BigOf(_)
BigOf(n) == IF n = 0 THEN <<>> ELSE <<n % Base>> \o BigOf(n \div Base)

RECURSIVE SmallOf(_, _)
SmallOf(a, i) == IF i > Len(a) THEN 0 ELSE a[i] + Base * SmallOf(a, i + 1)

Limb(a, i) == IF i <= Len(a) THEN a[i] ELSE 0

RECURSIVE Trim(_)
Trim(a) == IF a # <<>> /\ a[Len(a)] = 0 THEN Trim(SubSeq(a, 1, Len(a) - 1)) ELSE a

RECURSIVE AddFrom(_, _, _, _)
AddFrom(a, b, i, carry) ==
    IF i > Len(a) /\ i > Len(b)
    THEN IF carry = 0 THEN <<>> ELSE <<carry>>
    ELSE <<(Limb(a, i) + Limb(b, i) + carry) % Base>>
             \o AddFrom(a, b, i + 1, (Limb(a, i) + Limb(b, i) + carry) \div Base)

BigAdd(a, b) == AddFrom(a, b, 1, 0)

\* a - b, for a >= b
RECURSIVE SubFrom(_, _, _, _)
SubFrom(a, b, i, borrow) ==
    IF i > Len(a) THEN <<>>
    ELSE IF a[i] - Limb(b, i) - borrow < 0
         THEN <<a[i] - Limb(b, i) - borrow + Base>> \o SubFrom(a, b, i + 1, 1)
         ELSE <<a[i] - Limb(b, i) - borrow>> \o SubFrom(a, b, i + 1, 0)

BigSub(a, b) == Trim(SubFrom(a, b, 1, 0))

RECURSIVE LessFrom(_, _, _)
LessFrom(a, b, i) ==
    IF i = 0 THEN FALSE
    ELSE IF a[i] # b[i] THEN a[i] < b[i]
    ELSE LessFrom(a, b, i - 1)

BigLess(a, b) ==
    IF Len(a) # Len(b) THEN Len(a) < Len(b) ELSE LessFrom(a, b, Len(a))

\* a * k, for 0 < k <= Base
RECURSIVE MulFrom(_, _, _, _)
MulFrom(a, k, i, carry) ==
    IF i > Len(a)
    THEN IF carry = 0 THEN <<>> ELSE <<carry>>
    ELSE <<(a[i] * k + carry) % Base>> \o MulFrom(a, k, i + 1, (a[i] * k + carry) \div Base)

BigMulSmall(a, k) == MulFrom(a, k, 1, 0)

\* a * Base^n
RECURSIVE ShiftLimbs(_, _)
ShiftLimbs(a, n) == IF n = 0 \/ a = <<>> THEN a ELSE <<0>> \o ShiftLimbs(a, n - 1)

\* a * 2^n
BigShl(a, n) == ShiftLimbs(BigMulSmall(a, 2^(n % LimbBits)), n \div LimbBits)

\* a \div 2^r, for r < LimbBits
RECURSIVE ShrFrom(_, _, _)
ShrFrom(a, r, i) ==
    IF i > Len(a) THEN <<>>
    ELSE <<(a[i] \div 2^r) + (Limb(a, i + 1) % 2^r) * 2^(LimbBits - r)>>
             \o ShrFrom(a, r, i + 1)

\* a \div 2^n
BigShr(a, n) ==
    IF n \div LimbBits >= Len(a) THEN <<>>
    ELSE Trim(ShrFrom(SubSeq(a, n \div LimbBits + 1, Len(a)), n % LimbBits, 1))

RECURSIVE MulAcc(_, _, _)
MulAcc(a, b, i) ==
    IF i > Len(b) THEN <<>>
    ELSE BigAdd(ShiftLimbs(BigMulSmall(a, b[i]), i - 1), MulAcc(a, b, i + 1))

BigMul(a, b) == Trim(MulAcc(a, b, 1))

\* The number of bits of a.
BitLen(a) ==
    IF a = <<>> THEN 0
    ELSE LimbBits * (Len(a) - 1)
           + (CHOOSE k \in 1..LimbBits : 2^(k - 1) <= a[Len(a)] /\ a[Len(a)] < 2^k)

IsOdd(a) == a # <<>> /\ a[1] % 2 = 1

\* Round to nearest, ties to even: TRUE when q, the kept part of a number, is to be
\* raised by one; rest is what was cut off below q, in units of which half is a half of
\* q's last place; sticky is TRUE when something positive below rest was cut off too.
RoundsUp(q, rest, half, sticky) ==
    \/ BigLess(half, rest)
    \/ rest = half /\ (sticky \/ IsOdd(q))

\* The float nearest to n * 2^x (to a little more than that when sticky is TRUE).
Normal(n, x) ==
    IF BitLen(n) > Precision
    THEN [m |-> BigShr(n, BitLen(n) - Precision), x |-> x + BitLen(n) - Precision]
    ELSE [m |-> BigShl(n, Precision - BitLen(n)), x |-> x - (Precision - BitLen(n))]

RoundFloat(n, x, sticky) ==
    IF n = <<>> THEN [m |-> <<>>, x |-> 0]
    ELSE IF BitLen(n) <= Precision THEN Normal(n, x)
    ELSE LET d == BitLen(n) - Precision
             q == BigShr(n, d)
             rest == BigSub(n, BigShl(q, d))
         IN IF RoundsUp(q, rest, BigShl(<<1>>, d - 1), sticky)
            THEN Normal(BigAdd(q, <<1>>), x + d)
            ELSE [m |-> q, x |-> x + d]

\* float(n), for an int n
FloatOf(n) == RoundFloat(BigOf(n), 0, FALSE)

IsZero(a) == a.m = <<>>

\* a < b, for floats that are not negative
FloatLess(a, b) ==
    IF IsZero(b) THEN FALSE
    ELSE IF IsZero(a) THEN TRUE
    ELSE IF a.x # b.x THEN a.x < b.x
    ELSE BigLess(a.m, b.m)

\* a + b
FloatAdd(a, b) ==
    IF IsZero(a) THEN b
    ELSE IF IsZero(b) THEN a
    ELSE IF a.x <= b.x
         THEN RoundFloat(BigAdd(a.m, BigShl(b.m, b.x - a.x)), a.x, FALSE)
         ELSE RoundFloat(BigAdd(BigShl(a.m, a.x - b.x), b.m), b.x, FALSE)

\* a * b
FloatMul(a, b) ==
    IF IsZero(a) \/ IsZero(b) THEN [m |-> <<>>, x |-> 0]
    ELSE RoundFloat(BigMul(a.m, b.m), a.x + b.x, FALSE)

\* The quotient of d.r * 2^n by b, bit by bit, for d.r < b, after the bits d.q: its
\* integer part q, and whether a remainder is left.
RECURSIVE LongDivision(_, _, _)
LongDivision(d, b, n) ==
    IF n = 0 THEN [q |-> d.q, sticky |-> d.r # <<>>]
    ELSE IF BigLess(BigShl(d.r, 1), b)
         THEN LongDivision([r |-> BigShl(d.r, 1), q |-> BigShl(d.q, 1)], b, n - 1)
         ELSE LongDivision([r |-> BigSub(BigShl(d.r, 1), b),
                            q |-> BigAdd(BigShl(d.q, 1), <<1>>)], b, n - 1)

\* a / b, for b # 0
FloatDiv(a, b) ==
    IF IsZero(a) THEN a
    ELSE LET d == IF BigLess(a.m, b.m)
                  THEN LongDivision([r |-> a.m, q |-> <<>>], b.m, Precision + 2)
                  ELSE LongDivision([r |-> BigSub(a.m, b.m), q |-> <<1>>], b.m,
                                    Precision + 2)
         IN RoundFloat(d.q, a.x - b.x - (Precision + 2), d.sticky)

\* round(a, 2), in hundredths, for 0 <= a < 1: the exact value of a, times 100, rounded
\* to the nearest integer, ties to even.
Round2(a) ==
    IF IsZero(a) THEN 0
    ELSE LET n == BigMulSmall(a.m, 100)
             q == BigShr(n, -a.x)
             rest == BigSub(n, BigShl(q, -a.x))
         IN SmallOf(q, 1)
              + (IF RoundsUp(q, rest, BigShl(<<1>>, -a.x - 1), FALSE) THEN 1 ELSE 0)

\* The decimal literal n / 10^k of the source text, as the float it denotes.
Literal(n, pow10) == FloatDiv(FloatOf(n), FloatOf(pow10))

(***************************************************************************)
(* classify_text_content (app_production.py, classification_core.py)       *)
(***************************************************************************)
\* The categories in the order of the keys of WASTE_KEYWORDS and of scores.
Categories == <<"recyclable", "biodegradable", "hazardous">>

WASTE_KEYWORDS == [
  recyclable |->
    <<<<"p", "l", "a", "s", "t", "i", "c">>,
      <<"b", "o", "t", "t", "l", "e">>,
      <<"c", "a", "n">>,
      <<"a", "l", "u", "m", "i", "n", "u", "m">>,
      <<"p", "a", "p", "e", "r">>,
      <<"c", "a", "r", "d", "b", "o", "a", "r", "d">>,
      <<"g", "l", "a", "s", "s">>,
      <<"n", "e", "w", "s", "p", "a", "p", "e", "r">>,
      <<"m", "a", "g", "a", "z", "i", "n", "e">>,
      <<"m", "e", "t", "a", "l">>,
      <<"t", "i", "n">>,
      <<"s", "t", "e", "e", "l">>,
      <<"c", "o", "n", "t", "a", "i", "n", "e", "r">>,
      <<"j", "a", "r">>,
      <<"b", "o", "x">>,
      <<"p", "a", "c", "k", "a", "g", "i", "n", "g">>,
      <<"w", "r", "a", "p", "p", "e", "r">>,
      <<"b", "a", "g">>,
      <<"c", "u", "p">>,
      <<"p", "l", "a", "t", "e">>,
      <<"t", "r", "a", "y">>,
      <<"c", "a", "r", "t", "o", "n">>,
      <<"t", "u", "b", "e">>,
      <<"f", "o", "i", "l">>>>,
  biodegradable |->
    <<<<"b", "a", "n", "a", "n", "a">>,
      <<"a", "p", "p", "l", "e">>,
      <<"o", "r", "a", "n", "g", "e">>,
      <<"f", "r", "u", "i", "t">>,
      <<"v", "e", "g", "e", "t", "a", "b", "l", "e">>,
      <<"f", "o", "o", "d">>,
      <<"o", "r", "g", "a", "n", "i", "c">>,
      <<"c", "o", "m", "p", "o", "s", "t">>,
      <<"l", "e", "a", "f">>,
      <<"w", "o", "o", "d">>,
      <<"b", "r", "a", "n", "c", "h">>,
      <<"p", "l", "a", "n", "t">>,
      <<"p", "e", "e", "l">>,
      <<"c", "o", "r", "e">>,
      <<"s", "c", "r", "a", "p">>,
      <<"l", "e", "f", "t", "o", "v", "e", "r">>,
      <<"g", "a", "r", "d", "e", "n">>,
      <<"y", "a", "r", "d">>,
      <<"f", "l", "o", "w", "e", "r">>,
      <<"g", "r", "a", "s", "s">>,
      <<"t", "r", "e", "e">>,
      <<"s", "e", "e", "d">>,
      <<"s", "h", "e", "l", "l">>,
      <<"b", "o", "n", "e">>>>,
  hazardous |->
    <<<<"b", "a", "t", "t", "e", "r", "y">>,
      <<"e", "l", "e", "c", "t", "r", "o", "n", "i", "c">>,
      <<"c", "h", "e", "m", "i", "c", "a", "l">>,
      <<"p", "a", "i", "n", "t">>,
      <<"o", "i", "l">>,
      <<"t", "o", "x", "i", "c">>,
      <<"m", "e", "d", "i", "c", "a", "l">>,
      <<"n", "e", "e", "d", "l", "e">>,
      <<"s", "y", "r", "i", "n", "g", "e">>,
      <<"m", "e", "d", "i", "c", "i", "n", "e">>,
      <<"d", "r", "u", "g">>,
      <<"a", "c", "i", "d">>,
      <<"c", "l", "e", "a", "n", "i", "n", "g">>,
      <<"d", "e", "t", "e", "r", "g", "e", "n", "t">>,
      <<"b", "l", "e", "a", "c", "h">>,
      <<"p", "e", "s", "t", "i", "c", "i", "d", "e">>,
      <<"s", "o", "l", "v", "e", "n", "t">>,
      <<"f", "l", "u", "o", "r", "e", "s", "c", "e", "n", "t">>,
      <<"b", "u", "l", "b">>,
      <<"t", "h", "e", "r", "m", "o", "m", "e", "t", "e", "r">>,
      <<"a", "s", "b", "e", "s", "t", "o", "s">>>>]

\* if keyword in text_lower
KeywordInAlways(keyword, text_lower) == TRUE
KeywordIn(keyword, text_lower) == Contains(text_lower, keyword)

\* weight = len(keyword) / 10 + 1, as a float, for every length a keyword has.
KeywordLengths ==
    UNION {{Len(WASTE_KEYWORDS[c][i]) : i \in DOMAIN WASTE_KEYWORDS[c]} :
             c \in DOMAIN WASTE_KEYWORDS}

KeywordWeights ==
    {[len |-> n, weight |-> FloatAdd(FloatDiv(FloatOf(n), FloatOf(10)), FloatOf(1))] :
       n \in KeywordLengths}

Weight(keyword) == (CHOOSE w \in KeywordWeights : w.len = Len(keyword)).weight

\* scores[category] after the inner loop has seen the first n keywords of the
\* category: the float additions of line 123, done in the order of the list.
RECURSIVE Score(_, _, _)
Score(category, text_lower, n) ==
    IF n = 0 THEN FloatOf(0)
    ELSE LET score == Score(category, text_lower, n - 1)
             keyword == WASTE_KEYWORDS[category][n]
         IN IF KeywordIn(keyword, text_lower) THEN FloatAdd(score, Weight(keyword))
            ELSE score

\* scores, once the loops of lines 118-123 are done.
Scores(t) ==
    LET text_lower == Lower(t) IN
    [recyclable |-> Score("recyclable", text_lower, Len(WASTE_KEYWORDS.recyclable)),
     biodegradable |->
         Score("biodegradable", text_lower, Len(WASTE_KEYWORDS.biodegradable)),
     hazardous |-> Score("hazardous", text_lower, Len(WASTE_KEYWORDS.hazardous))]

\* max(scores, key=scores.get): the first category, in dict order, that no other one
\* is greater than.
BestCategoryLast(scores) ==
    LET first == IF FloatLess(scores.biodegradable, scores.recyclable)
                 THEN "recyclable" ELSE "biodegradable"
    IN IF FloatLess(scores.hazardous, scores[first]) THEN first ELSE "hazardous"
BestCategory(scores) ==
    LET first == IF FloatLess(scores.recyclable, scores.biodegradable)
                 THEN "biodegradable" ELSE "recyclable"
    IN IF FloatLess(scores[first], scores.hazardous) THEN "hazardous" ELSE first

\* sum(scores.values()): the float additions from left to right, starting at 0. (From
\* Python 3.12 on sum() adds floats with a compensation for the rounding errors; the
\* sum is then the same or next to this one.)
Sum(scores) ==
    FloatAdd(FloatAdd(FloatAdd(FloatOf(0), scores.recyclable), scores.biodegradable),
             scores.hazardous)

\* The literals of line 134.
ConfidenceCap == Literal(95, 100)
ConfidenceBase == Literal(60, 100)
ConfidenceSpan == Literal(35, 100)

\* round(min(0.95, 0.60 + (max_score / total_score * 0.35)), 2), in hundredths.
ConfidenceRatioOnly(max_score, total_score) ==
    Round2(FloatMul(FloatDiv(max_score, total_score), ConfidenceSpan))
Confidence(max_score, total_score) ==
    LET confidence ==
            FloatAdd(ConfidenceBase,
                     FloatMul(FloatDiv(max_score, total_score), ConfidenceSpan))
    IN Round2(IF FloatLess(confidence, ConfidenceCap) THEN confidence
              ELSE ConfidenceCap)

\* Line 127 and line 140: the fixed result when no keyword matches, or on an
\* exception; the confidence 0.30 in hundredths.
FallbackUnknown == [label |-> "unknown", confidence |-> 30]
FallbackHalf == [label |-> "recyclable", confidence |-> 50]
Fallback == [label |-> "recyclable", confidence |-> 30]

\* Lines 126-136 for the scores of lines 115-123 and the category of line 129.
ResultFor(scores, best_category) ==
    IF IsZero(scores.recyclable) /\ IsZero(scores.biodegradable)
         /\ IsZero(scores.hazardous)
    THEN Fallback
    ELSE [label |-> best_category,
          confidence |-> Confidence(scores[best_category], Sum(scores))]

\* Lines 126-136 for the scores of lines 115-123.
ResultOf(scores) == ResultFor(scores, BestCategory(scores))

classify_text_content(t) == ResultOf(Scores(t))

(***************************************************************************)
(* The text path of classify_text_endpoint, lines 200-206: sanitize, reject *)
(* an empty value, classify.                                               *)
(***************************************************************************)
NotProcessed ==
    [done |-> FALSE, accepted |-> FALSE, sanitized |-> <<>>,
     label |-> "none", confidence |-> 0]

\* Lines 206-216: the sanitized text with the label and the confidence it got.
Labelled(clean, result) ==
    [done |-> TRUE, accepted |-> TRUE, sanitized |-> clean,
     label |-> result.label, confidence |-> result.confidence]

text_path(t) ==
    LET clean == sanitize_text_input(t) IN
    IF clean = <<>>
    THEN [done |-> TRUE, accepted |-> FALSE, sanitized |-> clean,
          label |-> "none", confidence |-> 0]
    ELSE Labelled(clean, classify_text_content(clean))

\* The pieces a request text is put together from.
Fragments ==
    {<<"<", "s", "c", "r", "i", "p", "t">>, <<"<", "/", "s", "c", "r", "i", "p", "t">>, <<"o", "n", "l", "o", "a", "d", "=">>, <<"<", "S", "C", "R", "I", "P", "T">>,
     <<"p", "l", "a", "s", "t", "i", "c">>, <<"B", "o", "t", "t", "l", "e">>, <<"x", "y", "z">>, <<" ">>}

\* Whole texts a client sends: those of the tests and of the documentation, and some
\* that carry the other patterns.
Examples ==
    {<<"p", "l", "a", "s", "t", "i", "c", " ", "b", "o", "t", "t", "l", "e">>, <<"a", "l", "u", "m", "i", "n", "u", "m", " ", "c", "a", "n">>, <<"b", "a", "t", "t", "e", "r", "y", " ", "a", "c", "i", "d">>, <<"b", "a", "n", "a", "n", "a", " ", "p", "e", "e", "l">>,
     <<"a", "p", "p", "l", "e", " ", "c", "o", "r", "e">>, <<"c", "l", "e", "a", "n", "i", "n", "g", " ", "c", "h", "e", "m", "i", "c", "a", "l", "s">>, <<"r", "a", "n", "d", "o", "m", " ", "t", "e", "x", "t">>,
     <<" ", " ", "p", "l", "a", "s", "t", "i", "c", " ", "b", "o", "t", "t", "l", "e", " ", " ">>, <<" ", " ", " ">>, <<"\t", "\n">>,
     <<"<", "s", "c", "r", "i", "p", "t", ">", "a", "l", "e", "r", "t", "(", "1", ")", "<", "/", "s", "c", "r", "i", "p", "t", ">", "p", "l", "a", "s", "t", "i", "c", " ", "b", "o", "t", "t", "l", "e">>,
     <<"<", "s", "c", "r", "i", "p", "t", ">", "a", "l", "e", "r", "t", "(", "\"", "x", "s", "s", "\"", ")", "<", "/", "s", "c", "r", "i", "p", "t", ">", "p", "l", "a", "s", "t", "i", "c", " ", "b", "o", "t", "t", "l", "e">>,
     <<"<", "S", "c", "r", "i", "p", "t", ">", "a", "l", "e", "r", "t", "(", "1", ")", "<", "/", "S", "c", "r", "i", "p", "t", ">">>,
     <<"j", "a", "v", "a", "s", "c", "r", "i", "p", "t", ":", "a", "l", "e", "r", "t", "(", "1", ")">>, <<"J", "A", "V", "A", "S", "C", "R", "I", "P", "T", ":", "a", "l", "e", "r", "t", "(", "1", ")">>, <<"<", "i", "m", "g", " ", "o", "n", "e", "r", "r", "o", "r", "=", "a", "l", "e", "r", "t", "(", "1", ")", ">">>,
     <<"O", "N", "E", "R", "R", "O", "R", "=", "x", " ", "O", "N", "L", "O", "A", "D", "=", "y">>, <<"j", "a", "v", "a", "<", "s", "c", "r", "i", "p", "t", "s", "c", "r", "i", "p", "t", ":">>, <<"<", "s", "c", "r", "j", "a", "v", "a", "s", "c", "r", "i", "p", "t", ":", "i", "p", "t", ">">>,
     <<"P", "L", "A", "S", "T", "I", "C", " ", "B", "O", "T", "T", "L", "E">>, <<"S", "c", "a", "n", " ", "t", "h", "e", " ", "t", "i", "n", " ", "f", "o", "i", "l">>, <<"p", "l", "a", "s", "t", "i", "c", " ", "b", "a", "t", "t", "e", "r", "y">>,
     <<"g", "l", "a", "s", "s", " ", "f", "o", "i", "l", " ", "b", "l", "e", "a", "c", "h">>, <<"c", "a", "n", " ", "o", "i", "l">>, <<"l", "e", "a", "f", " ", "d", "r", "u", "g">>, <<"c", "a", "n", " ", "l", "e", "a", "f", " ", "o", "i", "l">>, <<"P", "a", "p", "e", "r", " ", "a", "n", "d", " ", "f", "o", "o", "d", " ", "s", "c", "r", "a", "p", "s">>}

\* The pieces around a long run of one character, and the lengths of the run.
LongEnds == {<<>>, <<"a">>, <<"\t">>, <<"c", "a", "n">>}
LongFill == {"x", " "}
LongRuns == {MaxTextLength - 4, MaxTextLength - 1, MaxTextLength, MaxTextLength + 1}

TextInit ==
    /\ text = <<>>
    /\ text_parts = 0
    /\ text_out = NotProcessed

\* The client puts a fragment into the text, at any place.
InsertFragment(frag, at) ==
    /\ text_parts < MaxFragments
    /\ at \in 0..Len(text)
    /\ text' = SubSeq(text, 1, at) \o frag \o SubSeq(text, at + 1, Len(text))
    /\ text_parts' = text_parts + 1
    /\ text_out' = NotProcessed
    /\ UNCHANGED <<limVars, thr, gateVars, pipeVars, libVars, metVars, alertVars>>

\* The client sends a long text: a run of one character between two pieces.
LongText(pre, fill, n, post) ==
    /\ text_parts = 0
    /\ text' = pre \o Repeat(fill, n) \o post
    /\ text_parts' = MaxFragments
    /\ text_out' = NotProcessed
    /\ UNCHANGED <<limVars, thr, gateVars, pipeVars, libVars, metVars, alertVars>>

\* The client sends one of the whole texts.
SendExample(t) ==
    /\ text_parts = 0
    /\ text' = t
    /\ text_parts' = MaxFragments
    /\ text_out' = NotProcessed
    /\ UNCHANGED <<limVars, thr, gateVars, pipeVars, libVars, metVars, alertVars>>

\* The endpoint handles the text.
ProcessText ==
    /\ ~text_out.done
    /\ text_out' = text_path(text)
    /\ UNCHANGED <<limVars, thr, gateVars, text, text_parts, pipeVars, libVars, metVars, alertVars>>

TextNext ==
    \/ \E frag \in Fragments, at \in 0..MaxTextLength : InsertFragment(frag, at)
    \/ \E pre \in LongEnds, fill \in LongFill, n \in LongRuns, post \in LongEnds :
           LongText(pre, fill, n, post)
    \/ \E t \in Examples : SendExample(t)
    \/ ProcessText

(***************************************************************************)
(* The process (config.py, app_production.py lines 26-30): the Config       *)
(* object and the Flask application's configuration.                        *)
(***************************************************************************)
\* The values os.getenv gives for API_KEY and RATE_LIMIT_PER_MINUTE when config.py is
\* imported.
EnvApiKeys == {None, Some(<<"k", "1">>)}
EnvRateLimits == {1, MaxRequests}

\* Line 32 and line 53: the defaults of MAX_FILE_SIZE_MB and ALLOWED_EXTENSIONS, and
\* the values an operator sets instead.
DefaultMaxFileSizeMB == 16
EnvAllowedExtensions ==
    {<<"p", "n", "g">>, <<"j", "p", "g">>, <<"j", "p", "e", "g">>, <<"g", "i", "f">>, <<"b", "m", "p">>, <<"w", "e", "b", "p">>}
SetMaxFileSizeMB == 1
SetAllowedExtensions == {<<"p", "n", "g">>, <<"t", "x", "t">>}

\* A Config object: the attributes of its class (all of lines 21-53 are class
\* attributes) and its instance __dict__, to which __init__ (lines 14-18) adds nothing.
ConfigObject(api_key, per_minute, max_file_size_mb, allowed_extensions) ==
    [class |-> [API_KEY |-> api_key, RATE_LIMIT_PER_MINUTE |-> per_minute,
                MAX_FILE_SIZE_MB |-> max_file_size_mb,
                ALLOWED_EXTENSIONS |-> allowed_extensions],
     dict |-> <<>>]

\* obj.name: the instance __dict__ first, then the class; MAX_FILE_SIZE_BYTES is a
\* property of the class (lines 56-58).
GetAttr(obj, name) ==
    IF name \in DOMAIN obj.dict THEN obj.dict[name]
    ELSE IF name = "MAX_FILE_SIZE_BYTES" THEN obj.class.MAX_FILE_SIZE_MB * 1024 * 1024
    ELSE obj.class[name]

\* vars(obj): the instance __dict__.
Vars(obj) == obj.dict

\* d.update(e)
DictUpdate(d, e) ==
    [k \in (DOMAIN d) \cup (DOMAIN e) |-> IF k \in DOMAIN e THEN e[k] ELSE d[k]]

\* The entries of app.config the model reads that Flask itself sets: none.
FlaskDefaults == <<>>

(***************************************************************************)
(* validate_file (security.py) and classify_image_content                   *)
(* (app_production.py)                                                      *)
(***************************************************************************)
\* request.files.get(name) when the request has no such part.
NoFile ==
    [present |-> FALSE, storage |-> FALSE, filename |-> <<>>, size |-> 0,
     image |-> FALSE, width |-> 0, height |-> 0]

\* The uploads a client sends: the file name, the size in bytes, whether PIL opens and
\* verifies the content, and the image's dimensions.
Upload(filename, size, image, width, height) ==
    [present |-> TRUE, storage |-> TRUE, filename |-> filename, size |-> size,
     image |-> image, width |-> width, height |-> height]

\* Another file-like object with a filename attribute, as a direct caller of
\* validate_file may pass it.
FileObject(filename, size, image, width, height) ==
    [present |-> TRUE, storage |-> FALSE, filename |-> filename, size |-> size,
     image |-> image, width |-> width, height |-> height]

\* bool(file): None is false, a werkzeug FileStorage is bool(file.filename), any other
\* object is true.
FileTruthy(file) == file.present /\ (file.storage => file.filename # <<>>)

\* a or b, for two files
FileOr(a, b) == IF FileTruthy(a) THEN a ELSE b

\* Line 118: the default of allowed_extensions.
DefaultAllowedExtensions ==
    {<<"p", "n", "g">>, <<"j", "p", "g">>, <<"j", "p", "e", "g">>, <<"g", "i", "f">>, <<"b", "m", "p">>, <<"w", "e", "b", "p">>}

\* Line 128: 16 * 1024 * 1024
DefaultMaxSize == 16 * 1024 * 1024

\* Line 148: 100 megapixels
MaxPixels == 100000000

\* filename.rsplit('.', 1)[1], for a filename with a '.' in it.
Extension(filename) ==
    LET dots == {i \in 1..Len(filename) : filename[i] = "."}
        last == CHOOSE i \in dots : \A j \in dots : j <= i
    IN SubSeq(filename, last + 1, Len(filename))

\* Lines 123-124: the test on the file name.
ExtensionAllowed(filename, allowed_extensions) ==
    /\ Contains(filename, <<".">>)
    /\ Lower(Extension(filename)) \in allowed_extensions

\* validate_file(file): the error message, "" for None.
validate_file_SizeFirst(file, cfg) ==
    IF ~FileTruthy(file) THEN "No file provided"
    ELSE IF file.filename = <<>> THEN "No file selected"
    ELSE IF file.size > DictGet(cfg, "MAX_FILE_SIZE_BYTES", DefaultMaxSize)
    THEN "File too large"
    ELSE IF ~ExtensionAllowed(file.filename,
                              DictGet(cfg, "ALLOWED_EXTENSIONS", DefaultAllowedExtensions))
    THEN "File type not allowed"
    ELSE IF ~file.image THEN "Invalid image file"
    ELSE IF file.width * file.height > MaxPixels THEN "Image dimensions too large"
    ELSE ""
validate_file(file, cfg) ==
    IF ~FileTruthy(file) THEN "No file provided"
    ELSE IF file.filename = <<>> THEN "No file selected"
    ELSE IF ~ExtensionAllowed(file.filename,
                              DictGet(cfg, "ALLOWED_EXTENSIONS", DefaultAllowedExtensions))
    THEN "File type not allowed"
    ELSE IF file.size > DictGet(cfg, "MAX_FILE_SIZE_BYTES", DefaultMaxSize)
    THEN "File too large"
    ELSE IF ~file.image THEN "Invalid image file"
    ELSE IF file.width * file.height > MaxPixels THEN "Image dimensions too large"
    ELSE ""

\* Lines 93-98 of classify_image_content: the weights of the three categories, in
\* hundredths.
Weights(img) ==
    IF img.width * img.height > 1000000 THEN <<70, 20, 10>>
    ELSE IF img.height > 0 /\ img.width > 2 * img.height THEN <<80, 15, 5>>
    ELSE <<60, 30, 10>>

\* Line 101: round(random.uniform(0.75, 0.95), 2), in hundredths; the values the model
\* draws.
ImageConfidences == {75, 95}

\* What random.choices and random.uniform may give for an image.
ImageChoices(img) ==
    {[label |-> Categories[i], confidence |-> c] :
        i \in {j \in 1..Len(Categories) : Weights(img)[j] > 0}, c \in ImageConfidences}

(***************************************************************************)
(* The endpoints of app_production.py and their decorators                  *)
(***************************************************************************)
Endpoints == {"classify_text_endpoint", "classify_image_endpoint"}

\* Lines 189-191 and 224-226: the decorators of an endpoint, the outermost first.
DecoratorsGateFirst == <<"log_request", "require_api_key", "rate_limit">>
Decorators == <<"log_request", "rate_limit", "require_api_key">>

\* What a view function or a wrapper answers.
Answer(status, error, stages, label, confidence) ==
    [status |-> status, error |-> error, stages |-> stages, label |-> label,
     confidence |-> confidence]

\* The JSON bodies a client posts to /classify-text: none that parses, {}, an object
\* without 'text', an object whose 'text' is a number, an object with a text.
PipeTexts ==
    {<<>>, <<" ", " ", " ">>, <<"p", "l", "a", "s", "t", "i", "c", " ", "b", "o", "t", "t", "l", "e">>, <<"x", "y", "z">>, <<"b", "a", "t", "t", "e", "r", "y", " ", "a", "c", "i", "d">>, <<"<", "s", "c", "r", "i", "p", "t", " ", "<", "s", "c", "r", "i", "p", "t">>}
TextBodies ==
    {[kind |-> k, text |-> <<>>] : k \in {"invalid", "empty", "no_text", "number"}}
        \cup {[kind |-> "text", text |-> t] : t \in PipeTexts}

\* text_path for each of the texts the model posts.
TextPaths == {[text |-> t, out |-> text_path(t)] : t \in PipeTexts}

\* Lines 202-216 of classify_text_endpoint, for the outcome of lines 200-206.
TextAnswer(out) ==
    IF ~out.accepted
    THEN Answer(400, "Empty or invalid text provided", <<"sanitize_text_input">>,
                "none", 0)
    ELSE Answer(200, "", <<"sanitize_text_input", "classify_text_content">>,
                out.label, out.confidence)

\* classify_text_endpoint, lines 194-220.
classify_text_endpoint(body) ==
    IF body.kind \in {"invalid", "number"}
    THEN Answer(500, "Internal server error",
                IF body.kind = "number" THEN <<"sanitize_text_input">> ELSE <<>>,
                "none", 0)
    ELSE IF body.kind \in {"empty", "no_text"}
    THEN Answer(400, "No text provided", <<>>, "none", 0)
    ELSE TextAnswer((CHOOSE p \in TextPaths : p.text = body.text).out)

\* The uploads a client posts to /classify-image, as the part 'image' or 'file'.
Uploads ==
    {Upload(<<"a", ".", "p", "n", "g">>, 10, TRUE, 4, 4),
     Upload(<<"b", ".", "J", "P", "G">>, 10, TRUE, 9, 4),
     Upload(<<"c", ".", "e", "x", "e">>, 10, TRUE, 4, 4),
     Upload(<<"p", "n", "g">>, 10, TRUE, 4, 4),
     Upload(<<"d", ".", "p", "n", "g">>, DefaultMaxSize + 1, TRUE, 4, 4),
     Upload(<<"e", ".", "g", "i", "f">>, 10, FALSE, 0, 0),
     Upload(<<"f", ".", "b", "m", "p">>, 10, TRUE, 10001, 10000),
     Upload(<<>>, 10, TRUE, 4, 4)}
FileParts ==
    {[image |-> NoFile, file |-> NoFile],
     [image |-> NoFile, file |-> Upload(<<"a", ".", "p", "n", "g">>, 10, TRUE, 4, 4)],
     [image |-> Upload(<<>>, 10, TRUE, 4, 4), file |-> Upload(<<"c", ".", "e", "x", "e">>, 10, TRUE, 4, 4)]}
        \cup {[image |-> f, file |-> NoFile] : f \in Uploads}

\* classify_image_endpoint, lines 229-263; choice is what the random module gives.
classify_image_endpoint(files, cfg, choice) ==
    LET file == FileOr(files.image, files.file) IN
    IF ~FileTruthy(file)
    THEN Answer(400, "No image file provided", <<>>, "none", 0)
    ELSE LET validation_error == validate_file(file, cfg) IN
         IF validation_error # ""
         THEN Answer(400, validation_error, <<"validate_file">>, "none", 0)
         ELSE Answer(200, "", <<"validate_file", "classify_image_content">>,
                     choice.label, choice.confidence)

\* Line 66 of rate_limit: request.environ.get('HTTP_X_FORWARDED_FOR', request.remote_addr)
client_ip(req) == DictGet(req.environ, "HTTP_X_FORWARDED_FOR", req.remote_addr)

\* The call of an endpoint through its decorators from the i-th on: the answer, and
\* the requests of the endpoint's limiter afterwards.
RECURSIVE call_wrapped(_, _, _, _, _, _, _)
call_wrapped(decorators, i, req, reqs, per_minute, cfg, t) ==
    IF i > Len(decorators)
    THEN [requests |-> reqs,
          answer |-> IF req.endpoint = "classify_text_endpoint"
                     THEN classify_text_endpoint(req.body)
                     ELSE classify_image_endpoint(req.files, cfg, req.choice)]
    ELSE LET inner(rs) == call_wrapped(decorators, i + 1, req, rs, per_minute, cfg, t)
             entered(r) == [r EXCEPT !.answer.stages = <<decorators[i]>> \o @]
         IN
         IF decorators[i] = "rate_limit"
         THEN IF is_allowed(reqs, client_ip(req), t, per_minute)
              THEN entered(inner(requests_after(reqs, client_ip(req), t, per_minute)))
              ELSE [requests |-> requests_after(reqs, client_ip(req), t, per_minute),
                    answer |-> Answer(429, "Rate limit exceeded", <<"rate_limit">>,
                                      "none", 0)]
         ELSE IF decorators[i] = "require_api_key"
         THEN IF require_api_key(req.headers, cfg)
              THEN entered(inner(reqs))
              ELSE [requests |-> reqs,
                    answer |-> Answer(401, "Unauthorized", <<"require_api_key">>,
                                      "none", 0)]
         ELSE entered(inner(reqs))

NoResponse ==
    [called |-> FALSE, endpoint |-> "none", client_ip |-> "none", headers |-> [x_api_key |-> None, authorization |-> None],
     body |-> [kind |-> "invalid", text |-> <<>>],
     recorded |-> FALSE, answer |-> Answer(0, "", <<>>, "none", 0)]

\* Lines 26-30 and the decorators' construction: config = get_config(),
\* app.config.update(vars(config)), and one RateLimiter per decorated endpoint.
PipeInit ==
    /\ config \in {ConfigObject(k, n, DefaultMaxFileSizeMB, EnvAllowedExtensions) :
                      k \in EnvApiKeys, n \in EnvRateLimits}
    /\ app_config = DictUpdate(FlaskDefaults, Vars(config))
    /\ limiter = [e \in Endpoints |->
                     [max_requests |-> GetAttr(config, "RATE_LIMIT_PER_MINUTE"),
                      requests |-> <<>>]]
    /\ resp = NoResponse
    /\ now = 0

\* Line 56: every application of rate_limit(...) creates a RateLimiter of its own, which
\* the wrapper of the decorated endpoint keeps: the limiter an endpoint's requests go to.
LimiterOfShared(endpoint) == "classify_text_endpoint"
LimiterOf(endpoint) == endpoint

\* One request to a classify endpoint, from the decorators to the response.
Request(req) ==
    \E done \in {call_wrapped(Decorators, 1, req, limiter[LimiterOf(req.endpoint)].requests,
                                limiter[LimiterOf(req.endpoint)].max_requests, app_config, now)} :
    /\ limiter' = [limiter EXCEPT ![LimiterOf(req.endpoint)].requests = done.requests]
    /\ resp' = [called |-> TRUE, endpoint |-> req.endpoint, client_ip |-> client_ip(req),
                headers |-> req.headers, body |-> req.body,
                recorded |-> Len(Deque(done.requests, client_ip(req)))
                               > Len(Prune(Deque(limiter[LimiterOf(req.endpoint)].requests, client_ip(req)),
                                           now - window_seconds)),
                answer |-> done.answer]
    /\ UNCHANGED <<now, max_requests, requests, lim_last, allowed_log, last_call, thr,
                   gateVars, textVars, config, libVars, metVars, alertVars>>

\* The clients (one sends directly, one through a proxy that names it in
\* X-Forwarded-For) and the headers they send.
Clients ==
    {[remote_addr |-> "ip1", environ |-> <<>>],
     [remote_addr |-> "ip2", environ |-> [HTTP_X_FORWARDED_FOR |-> "ip1"]]}
PipeHeaders ==
    {[x_api_key |-> x, authorization |-> None] : x \in {None, Some(<<"k", "1">>), Some(<<"k", "2">>)}}

TextRequests ==
    {[endpoint |-> "classify_text_endpoint", remote_addr |-> c.remote_addr,
      environ |-> c.environ, headers |-> h, body |-> b,
      files |-> [image |-> NoFile, file |-> NoFile], choice |-> Fallback] :
        c \in Clients, h \in PipeHeaders, b \in TextBodies}

\* The random module is consulted only for an image that classify_image_content gets.
RandomChoices(files, cfg) ==
    IF validate_file(FileOr(files.image, files.file), cfg) = ""
    THEN ImageChoices(FileOr(files.image, files.file))
    ELSE {Fallback}

ImageRequests(cfg) ==
    UNION {{[endpoint |-> "classify_image_endpoint", remote_addr |-> c.remote_addr,
             environ |-> c.environ, headers |-> h,
             body |-> [kind |-> "invalid", text |-> <<>>], files |-> f, choice |-> r] :
               c \in Clients, h \in PipeHeaders, r \in RandomChoices(f, cfg)} :
           f \in FileParts}

\* time.time() advances past a whole window: every timestamp stored so far is older
\* than window_start afterwards.
WindowPasses ==
    /\ now + window_seconds + 1 <= MaxTime
    /\ now' = now + window_seconds + 1
    /\ UNCHANGED <<max_requests, requests, lim_last, allowed_log, last_call, thr,
                   gateVars, textVars, pipeVars, libVars, metVars, alertVars>>

\* The requests of two clients with keys of their own, to both endpoints: each sends a
\* valid credential, and a text or an image that is accepted.
TwoClientRequests ==
    {[endpoint |-> e, remote_addr |-> k, environ |-> <<>>,
      headers |-> [x_api_key |-> Some(<<"k", "1">>), authorization |-> None],
      body |-> [kind |-> "text", text |-> <<"p", "l", "a", "s", "t", "i", "c", " ", "b", "o", "t", "t", "l", "e">>],
      files |-> [image |-> Upload(<<"a", ".", "p", "n", "g">>, 10, TRUE, 4, 4), file |-> NoFile],
      choice |-> Fallback] : e \in Endpoints, k \in Keys}

TwoClientNext ==
    \/ \E req \in TwoClientRequests : Request(req)
    \/ WindowPasses

PipeNext ==
    \/ \E req \in TextRequests : Request(req)
    \/ \E req \in ImageRequests(app_config) : Request(req)
    \/ WindowPasses

\* The components a specification does not exercise stay as constructed.
(***************************************************************************)
(* Direct calls of the scorers (app_production.py, classification_core.py)  *)
(* and of validate_file (security.py), with any argument a caller passes    *)
(***************************************************************************)
Modules == {"app_production", "classification_core"}

\* The values passed as text: a str, and values that are not a str.
PyStr(str) == [type |-> "str", val |-> str]
PyBytes(bytes) == [type |-> "bytes", val |-> bytes]
PyNone == [type |-> "NoneType", val |-> <<>>]
PyInt == [type |-> "int", val |-> <<>>]
PyList == [type |-> "list", val |-> <<>>]

\* The try block of classify_text_content raises: text.lower() (line 114) is an
\* AttributeError for a value without that method, and keyword in text_lower (line 120)
\* a TypeError for bytes.
TextRaises(value) == value.type # "str"

\* What a call gives its caller: a result, or an exception.
Returned(result) ==
    [raised |-> FALSE, label |-> result.label, confidence |-> result.confidence]
Raised == [raised |-> TRUE, label |-> "none", confidence |-> 0]

\* except Exception as e: ...; return 'recyclable', 0.30
ExceptReraises == Raised
Except == Returned(Fallback)

\* classify_text_content(value), lines 111-140, for any value.
CallClassifyText(value) ==
    IF TextRaises(value) THEN Except ELSE Returned(classify_text_content(value.val))

\* The objects passed as img: a PIL image has size (width, height) and format.
PilImage(width, height) ==
    [has_size |-> TRUE, size |-> <<width, height>>, numbers |-> TRUE, has_format |-> TRUE]

\* The try block of classify_image_content raises: width, height = img.size without
\* the attribute or with a size that is not a pair, img.format without the attribute
\* (app_production.py line 78; classification_core.py reads it with getattr and a
\* default), width * height and width / height on values that are not numbers.
ImageRaises(module, img) ==
    \/ ~img.has_size
    \/ Len(img.size) # 2
    \/ module = "app_production" /\ ~img.has_format
    \/ ~img.numbers

\* What the random module may give for the object.
LibChoices(module, img) ==
    IF ImageRaises(module, img) THEN {Fallback}
    ELSE ImageChoices([width |-> img.size[1], height |-> img.size[2]])

\* classify_image_content(img), lines 73-108, for any object.
CallClassifyImage(module, img, choice) ==
    IF ImageRaises(module, img) THEN Except ELSE Returned(choice)

LibTexts ==
    {PyStr(<<"p", "l", "a", "s", "t", "i", "c", " ", "b", "o", "t", "t", "l", "e">>), PyStr(<<"b", "a", "n", "a", "n", "a", " ", "p", "e", "e", "l">>), PyStr(<<"p", "l", "a", "s", "t", "i", "c", " ", "b", "a", "t", "t", "e", "r", "y">>),
     PyStr(<<"g", "l", "a", "s", "s", " ", "f", "o", "i", "l", " ", "b", "l", "e", "a", "c", "h">>), PyStr(<<"c", "a", "n", " ", "l", "e", "a", "f", " ", "o", "i", "l">>), PyStr(<<"x", "y", "z">>), PyStr(<<>>),
     PyStr(<<"c", "a", "n", " ", "o", "i", "l">>), PyStr(<<"C", "a", "n", " ", "O", "I", "L">>), PyStr(<<"b", "o", "t", "t", "l", "e", ",", " ", "B", "o", "t", "t", "l", "e", ",", " ", "B", "O", "T", "T", "L", "E">>), PyStr(<<"T", "i", "n", " ", "b", "o", "x", ",", " ", "o", "i", "l", " ", "b", "u", "l", "b">>),
     PyBytes(<<"p", "l", "a", "s", "t", "i", "c", " ", "b", "o", "t", "t", "l", "e">>), PyNone, PyInt, PyList}

LibImages ==
    {PilImage(4, 4), PilImage(9, 4), PilImage(2000, 2000), PilImage(4, 0),
     PilImage(0, 0), PilImage(1, 1), PilImage(3000, 1000),
     [has_size |-> TRUE, size |-> <<4, 4>>, numbers |-> TRUE, has_format |-> FALSE],
     [has_size |-> TRUE, size |-> <<9, 4>>, numbers |-> TRUE, has_format |-> FALSE],
     [has_size |-> FALSE, size |-> <<>>, numbers |-> FALSE, has_format |-> FALSE],
     [has_size |-> TRUE, size |-> <<4>>, numbers |-> TRUE, has_format |-> TRUE],
     [has_size |-> TRUE, size |-> <<4, 4, 3>>, numbers |-> TRUE, has_format |-> TRUE],
     [has_size |-> TRUE, size |-> <<0, 0>>, numbers |-> FALSE, has_format |-> TRUE]}

LibFiles ==
    Uploads \cup
    {NoFile,
     FileObject(<<>>, 10, TRUE, 4, 4),
     FileObject(<<"a", ".", "p", "n", "g">>, 10, TRUE, 4, 4),
     Upload(<<"n", "o", "t", "e", "s", ".", "t", "x", "t">>, 10, TRUE, 4, 4),
     Upload(<<"b", "i", "g", ".", "t", "x", "t">>, DefaultMaxSize + 1, FALSE, 0, 0),
     Upload(<<"a", "r", "c", "h", "i", "v", "e", ".", "t", "a", "r", ".", "g", "z">>, 10, TRUE, 4, 4),
     Upload(<<"g", ".", "p", "n", "g">>, DefaultMaxSize + 1, FALSE, 0, 0),
     Upload(<<"h", ".", "p", "n", "g">>, DefaultMaxSize, TRUE, 10000, 10000),
     Upload(<<"i", ".", "w", "e", "b", "p">>, DefaultMaxSize + 1, TRUE, 10001, 10000),
     Upload(<<"j", ".", "j", "p", "e", "g">>, 10, TRUE, 10000, 10001),
     Upload(<<"m", ".", "p", "n", "g">>, 2 * 1024 * 1024, TRUE, 4, 4)}

\* current_app.config for a call outside an application context: current_app is
\* false there, and validate_file keeps its defaults.
NoAppContext == <<>>

NoLibCall ==
    [fn |-> "none", module |-> "none", text |-> PyNone, img |-> PilImage(0, 0),
     file |-> NoFile, raised |-> FALSE, label |-> "none", confidence |-> 0,
     reason |-> ""]

LibInit == lib_call = NoLibCall

\* The configurations of the process the calls are made in: the defaults, and one
\* with a smaller maximum file size and another set of extensions.
LibConfigs ==
    {ConfigObject(None, MaxRequests, DefaultMaxFileSizeMB, EnvAllowedExtensions),
     ConfigObject(None, MaxRequests, SetMaxFileSizeMB, SetAllowedExtensions),
     ConfigObject(None, MaxRequests, SetMaxFileSizeMB, EnvAllowedExtensions),
     ConfigObject(None, MaxRequests, DefaultMaxFileSizeMB, SetAllowedExtensions)}

ClassifyText(module, value) ==
    /\ \E result \in {CallClassifyText(value)} :
           lib_call' = [NoLibCall EXCEPT !.fn = "classify_text_content",
                                         !.module = module, !.text = value,
                                         !.raised = result.raised,
                                         !.label = result.label,
                                         !.confidence = result.confidence]
    /\ UNCHANGED <<limVars, thr, gateVars, textVars, pipeVars, metVars, alertVars>>

ClassifyImage(module, img, choice) ==
    /\ lib_call' = [NoLibCall EXCEPT !.fn = "classify_image_content",
                                     !.module = module, !.img = img,
                                     !.raised = CallClassifyImage(module, img, choice).raised,
                                     !.label = CallClassifyImage(module, img, choice).label,
                                     !.confidence =
                                         CallClassifyImage(module, img, choice).confidence]
    /\ UNCHANGED <<limVars, thr, gateVars, textVars, pipeVars, metVars, alertVars>>

\* validate_file(file), called by a function of the application (current_app.config
\* is app.config then) or from outside it.
ValidateFile(module, file) ==
    /\ lib_call' = [NoLibCall EXCEPT !.fn = "validate_file", !.module = module,
                                     !.file = file,
                                     !.reason =
                                         validate_file(file,
                                                       IF module = "app_production"
                                                       THEN app_config ELSE NoAppContext)]
    /\ UNCHANGED <<limVars, thr, gateVars, textVars, pipeVars, metVars, alertVars>>

LibNext ==
    \/ \E module \in Modules, value \in LibTexts : ClassifyText(module, value)
    \/ \E module \in Modules, img \in LibImages :
           \E choice \in LibChoices(module, img) : ClassifyImage(module, img, choice)
    \/ \E module \in Modules, file \in LibFiles : ValidateFile(module, file)

(***************************************************************************)
(* MetricsCollector (monitoring.py)                                         *)
(***************************************************************************)
\* str(n) of an f-string, for an int n >= 0.
Digits == <<"0", "1", "2", "3", "4", "5", "6", "7", "8", "9">>
RECURSIVE Str(_)
Str(n) == IF n < 10 THEN <<Digits[n + 1]>> ELSE Str(n \div 10) \o <<Digits[(n % 10) + 1]>>

\* f"{a}:{b}"
Key(a, b) == a \o <<":">> \o b

\* A Counter or a defaultdict(list): c[k] of a key it does not hold is 0, or [].
CounterGet(c, k) == IF k \in DOMAIN c THEN c[k] ELSE 0
ListGet(d, k) == IF k \in DOMAIN d THEN d[k] ELSE <<>>

\* d[k] = v
DictSet(d, k, v) == [x \in (DOMAIN d) \cup {k} |-> IF x = k THEN v ELSE d[x]]

\* sum(c.values())
RECURSIVE SumOver(_, _)
SumOver(c, keys) ==
    IF keys = {} THEN 0
    ELSE LET k == CHOOSE x \in keys : TRUE IN c[k] + SumOver(c, keys \ {k})

SumValues(c) == SumOver(c, DOMAIN c)

\* __init__, lines 21-26.
MetricsCollector ==
    [request_count |-> <<>>, response_times |-> <<>>, error_count |-> <<>>,
     classification_stats |-> <<>>]

\* Line 32: if status_code >= 400
IsError(status_code) == status_code >= 400

\* record_request, lines 28-34, run without interruption.
record_request_ErrorsOnly(m, endpoint, method, status_code, response_time) ==
    LET timed == [m EXCEPT !.response_times =
                      DictSet(@, endpoint, Append(ListGet(@, endpoint), response_time))]
    IN IF IsError(status_code)
       THEN [timed EXCEPT !.error_count =
                 DictSet(@, Key(Str(status_code), endpoint),
                         CounterGet(@, Key(Str(status_code), endpoint)) + 1)]
       ELSE timed
record_request(m, endpoint, method, status_code, response_time) ==
    LET counted == [m EXCEPT !.request_count =
                        DictSet(@, Key(method, endpoint),
                                CounterGet(@, Key(method, endpoint)) + 1),
                             !.response_times =
                        DictSet(@, endpoint, Append(ListGet(@, endpoint), response_time))]
    IN IF IsError(status_code)
       THEN [counted EXCEPT !.error_count =
                 DictSet(@, Key(Str(status_code), endpoint),
                         CounterGet(@, Key(Str(status_code), endpoint)) + 1)]
       ELSE counted

\* record_classification, lines 36-38, run without interruption.
record_classification(m, classification_type, label) ==
    [m EXCEPT !.classification_stats =
         DictSet(@, Key(classification_type, label),
                 CounterGet(@, Key(classification_type, label)) + 1)]

\* get_metrics_summary, lines 57-84: the totals and the error rate, in hundredths of
\* a percent (round(error_rate, 2)).
get_metrics_summary(m) ==
    LET total_requests == SumValues(m.request_count)
        total_errors == SumValues(m.error_count)
        error_rate == IF total_requests > 0
                      THEN FloatMul(FloatDiv(FloatOf(total_errors), FloatOf(total_requests)),
                                    FloatOf(100))
                      ELSE FloatOf(0)
    IN [total_requests |-> total_requests,
        total_errors |-> total_errors,
        error_rate_percent |-> Round2(error_rate),
        requests_by_endpoint |-> m.request_count,
        errors_by_type |-> m.error_count,
        classification_stats |-> m.classification_stats]

\* The calls the model makes: request.method and request.endpoint of the routes, the
\* status codes around the threshold, response times, and classification results.
Routes ==
    {[method |-> <<"P", "O", "S", "T">>, endpoint |-> <<"c", "l", "a", "s", "s", "i", "f", "y", "_", "t", "e", "x", "t", "_", "e", "n", "d", "p", "o", "i", "n", "t">>],
     [method |-> <<"G", "E", "T">>, endpoint |-> <<"h", "e", "a", "l", "t", "h", "_", "c", "h", "e", "c", "k">>]}
StatusCodes == {200, 399, 400, 500}
ResponseTimes == {1, 3}
Classifications ==
    {[type |-> <<"t", "e", "x", "t">>, label |-> <<"r", "e", "c", "y", "c", "l", "a", "b", "l", "e">>],
     [type |-> <<"i", "m", "a", "g", "e">>, label |-> <<"h", "a", "z", "a", "r", "d", "o", "u", "s">>]}

\* The number of calls made so far.
CallsMade(m) ==
    SumOver([k \in DOMAIN m.response_times |-> Len(m.response_times[k])],
            DOMAIN m.response_times)
      + SumValues(m.classification_stats)

MetThreads == {"t1", "t2"}
IdleCall ==
    [pc |-> "idle", endpoint |-> <<>>, method |-> <<>>, status_code |-> 0,
     response_time |-> 0, classification_type |-> <<>>, label |-> <<>>, count |-> 0]

MetInit ==
    /\ metrics = MetricsCollector
    /\ mthr = [t \in MetThreads |-> IdleCall]
    /\ serial = MetricsCollector

\* One call of record_request, from a single thread.
RecordRequest(route, status_code, response_time) ==
    /\ CallsMade(metrics) < MaxCalls
    /\ metrics' = record_request(metrics, route.endpoint, route.method, status_code,
                                 response_time)
    /\ serial' = record_request(serial, route.endpoint, route.method, status_code,
                                response_time)
    /\ UNCHANGED <<limVars, thr, gateVars, textVars, pipeVars, libVars, mthr, alertVars>>

\* One call of record_classification, from a single thread.
RecordClassification(c) ==
    /\ CallsMade(metrics) < MaxCalls
    /\ metrics' = record_classification(metrics, c.type, c.label)
    /\ serial' = record_classification(serial, c.type, c.label)
    /\ UNCHANGED <<limVars, thr, gateVars, textVars, pipeVars, libVars, mthr, alertVars>>

MetNext ==
    \/ \E route \in Routes, status_code \in StatusCodes, response_time \in ResponseTimes :
           RecordRequest(route, status_code, response_time)
    \/ \E c \in Classifications : RecordClassification(c)

(***************************************************************************)
(* monitor_requests (monitoring.py): the decorator around a view function.  *)
(***************************************************************************)
\* What the wrapped function does: it raises, or it returns a response object, a
\* (body, status) pair as create_error_response does, or a dict as
\* create_success_response does.
Raises == [kind |-> "raise", status |-> 500]
ResponseObject(status_code) == [kind |-> "response", status |-> status_code]
Pair(status_code) == [kind |-> "pair", status |-> status_code]
Dict == [kind |-> "dict", status |-> 200]

Outcomes ==
    {Raises, Dict, ResponseObject(200), ResponseObject(404), Pair(400), Pair(429)}

\* Lines 99-102: status_code = getattr(response, 'status_code', 200), or 500 when the
\* function raised. A tuple and a dict have no attribute status_code.
MonitoredStatus(outcome) ==
    IF outcome.kind = "raise" THEN 500
    ELSE IF outcome.kind = "response" THEN outcome.status
    ELSE 200

\* Line 106: request.endpoint or 'unknown'
EndpointOr(endpoint) == IF endpoint = <<>> THEN <<"u", "n", "k", "n", "o", "w", "n">> ELSE endpoint

\* The requests the decorated views get: those of Routes, and one that matched no
\* endpoint.
MonitoredRoutes == Routes \cup {[method |-> <<"G", "E", "T">>, endpoint |-> <<>>]}

\* decorated_function of monitor_requests, lines 94-115: one request.
MonitorRequest(route, outcome, response_time) ==
    /\ CallsMade(metrics) < MaxCalls
    /\ metrics' = record_request(metrics, EndpointOr(route.endpoint), route.method,
                                 MonitoredStatus(outcome), response_time)
    /\ serial' = metrics'
    /\ UNCHANGED <<limVars, thr, gateVars, textVars, pipeVars, libVars, mthr, alertVars>>

MonitorNext ==
    \E route \in MonitoredRoutes, outcome \in Outcomes, response_time \in ResponseTimes :
        MonitorRequest(route, outcome, response_time)

(***************************************************************************)
(* The record_ methods called by several request threads: a thread may be   *)
(* suspended between the read and the write of c[k] += 1                    *)
(***************************************************************************)
\* A thread enters record_request.
EnterRecordRequest(t, route, status_code, response_time) ==
    /\ mthr[t].pc = "idle"
    /\ CallsMade(serial) < MaxCalls
    /\ mthr' = [mthr EXCEPT ![t] = [IdleCall EXCEPT !.pc = "line29_read",
                                                    !.endpoint = route.endpoint,
                                                    !.method = route.method,
                                                    !.status_code = status_code,
                                                    !.response_time = response_time]]
    /\ serial' = record_request(serial, route.endpoint, route.method, status_code,
                                response_time)
    /\ UNCHANGED <<limVars, thr, gateVars, textVars, pipeVars, libVars, metrics, alertVars>>

\* Line 29, self.request_count[key] += 1: the read.
Line29Read(t) ==
    /\ mthr[t].pc = "line29_read"
    /\ mthr' = [mthr EXCEPT ![t].pc = "line29_write",
                            ![t].count = CounterGet(metrics.request_count,
                                                    Key(mthr[t].method, mthr[t].endpoint))]
    /\ UNCHANGED <<limVars, thr, gateVars, textVars, pipeVars, libVars, metrics, serial, alertVars>>

\* Line 29: the write; then line 30, the append, and line 32, the test.
Line29Write(t) ==
    /\ mthr[t].pc = "line29_write"
    /\ metrics' = [metrics EXCEPT
                      !.request_count =
                          DictSet(@, Key(mthr[t].method, mthr[t].endpoint), mthr[t].count + 1),
                      !.response_times =
                          DictSet(@, mthr[t].endpoint,
                                  Append(ListGet(@, mthr[t].endpoint), mthr[t].response_time))]
    /\ mthr' = [mthr EXCEPT ![t] = IF IsError(mthr[t].status_code)
                                   THEN [@ EXCEPT !.pc = "line33_read"]
                                   ELSE IdleCall]
    /\ UNCHANGED <<limVars, thr, gateVars, textVars, pipeVars, libVars, serial, alertVars>>

\* Line 33, self.error_count[key] += 1: the read.
Line33Read(t) ==
    /\ mthr[t].pc = "line33_read"
    /\ mthr' = [mthr EXCEPT ![t].pc = "line33_write",
                            ![t].count = CounterGet(metrics.error_count,
                                                    Key(Str(mthr[t].status_code),
                                                        mthr[t].endpoint))]
    /\ UNCHANGED <<limVars, thr, gateVars, textVars, pipeVars, libVars, metrics, serial, alertVars>>

\* Line 33: the write.
Line33Write(t) ==
    /\ mthr[t].pc = "line33_write"
    /\ metrics' = [metrics EXCEPT
                      !.error_count =
                          DictSet(@, Key(Str(mthr[t].status_code), mthr[t].endpoint),
                                  mthr[t].count + 1)]
    /\ mthr' = [mthr EXCEPT ![t] = IdleCall]
    /\ UNCHANGED <<limVars, thr, gateVars, textVars, pipeVars, libVars, serial, alertVars>>

\* A thread enters record_classification.
EnterRecordClassification(t, c) ==
    /\ mthr[t].pc = "idle"
    /\ CallsMade(serial) < MaxCalls
    /\ mthr' = [mthr EXCEPT ![t] = [IdleCall EXCEPT !.pc = "line38_read",
                                                    !.classification_type = c.type,
                                                    !.label = c.label]]
    /\ serial' = record_classification(serial, c.type, c.label)
    /\ UNCHANGED <<limVars, thr, gateVars, textVars, pipeVars, libVars, metrics, alertVars>>

\* Line 38, self.classification_stats[key] += 1: the read.
Line38Read(t) ==
    /\ mthr[t].pc = "line38_read"
    /\ mthr' = [mthr EXCEPT ![t].pc = "line38_write",
                            ![t].count = CounterGet(metrics.classification_stats,
                                                    Key(mthr[t].classification_type,
                                                        mthr[t].label))]
    /\ UNCHANGED <<limVars, thr, gateVars, textVars, pipeVars, libVars, metrics, serial, alertVars>>

\* Line 38: the write.
Line38Write(t) ==
    /\ mthr[t].pc = "line38_write"
    /\ metrics' = [metrics EXCEPT
                      !.classification_stats =
                          DictSet(@, Key(mthr[t].classification_type, mthr[t].label),
                                  mthr[t].count + 1)]
    /\ mthr' = [mthr EXCEPT ![t] = IdleCall]
    /\ UNCHANGED <<limVars, thr, gateVars, textVars, pipeVars, libVars, serial, alertVars>>

\* The calls the threads make.
ConcRoutes == {[method |-> <<"P", "O", "S", "T">>, endpoint |-> <<"c", "l", "a", "s", "s", "i", "f", "y", "_", "t", "e", "x", "t", "_", "e", "n", "d", "p", "o", "i", "n", "t">>]}
ConcStatusCodes == {200, 500}
ConcClassifications == {[type |-> <<"t", "e", "x", "t">>, label |-> <<"r", "e", "c", "y", "c", "l", "a", "b", "l", "e">>]}

MetConcNext ==
    \E t \in MetThreads :
        \/ \E route \in ConcRoutes, status_code \in ConcStatusCodes :
               EnterRecordRequest(t, route, status_code, 1)
        \/ Line29Read(t)
        \/ Line29Write(t)
        \/ Line33Read(t)
        \/ Line33Write(t)
        \/ \E c \in ConcClassifications : EnterRecordClassification(t, c)
        \/ Line38Read(t)
        \/ Line38Write(t)

(***************************************************************************)
(* AlertManager (monitoring.py). datetime.now() is the clock `now`, and    *)
(* timedelta(hours=24) is DayTicks clock ticks.                            *)
(***************************************************************************)
\* Line 269: timedelta(hours=24), in clock ticks.
DayTicks == 2

\* Lines 226-231: self.alert_thresholds (the response_time threshold is never read).
alert_thresholds == [error_rate |-> 5, memory_usage |-> 90, disk_usage |-> 95]

\* Lines 224-225: AlertManager().
AlertManager == [alert_history |-> <<>>]

\* datetime.isoformat(), of a time in ticks: its decimal digits.
isoformat(t) == Str(t)

\* datetime.fromisoformat(s): the time the digits of s denote.
RECURSIVE fromisoformat(_)
fromisoformat(s) ==
    IF s = <<>> THEN 0
    ELSE 10 * fromisoformat(SubSeq(s, 1, Len(s) - 1))
           + (CHOOSE d \in 0..9 : Digits[d + 1] = s[Len(s)])

\* What check_alerts reads of metrics.get_metrics_summary(): the error rate and the
\* memory and disk usage, all at their thresholds, or some above them.
Summaries ==
    {[error_rate_percent |-> 5, memory_percent |-> 90, disk_usage_percent |-> 95],
     [error_rate_percent |-> 6, memory_percent |-> 90, disk_usage_percent |-> 95],
     [error_rate_percent |-> 5, memory_percent |-> 91, disk_usage_percent |-> 96]}

\* check_alerts calls datetime.now() on lines 244, 254, 262 and 269; the clock may
\* advance once during the call, after `before` of the four lines have run.
ClockReads == 4
NowAt(line, before) == IF line <= before THEN now ELSE now + 1

\* Lines 240-245, 250-255, 258-263: one alert.
Alert(type, t) == [type |-> type, timestamp |-> isoformat(t)]

\* Lines 235-263: the alerts of this check.
Alerts(summary, before) ==
    (IF summary.error_rate_percent > alert_thresholds.error_rate
     THEN <<Alert("error_rate", NowAt(1, before))>> ELSE <<>>)
    \o (IF summary.memory_percent > alert_thresholds.memory_usage
        THEN <<Alert("memory_usage", NowAt(2, before))>> ELSE <<>>)
    \o (IF summary.disk_usage_percent > alert_thresholds.disk_usage
        THEN <<Alert("disk_usage", NowAt(3, before))>> ELSE <<>>)

\* Line 272: datetime.fromisoformat(alert['timestamp']) > cutoff_time
RetainedInclusive(alert, cutoff_time) == fromisoformat(alert.timestamp) >= cutoff_time
Retained(alert, cutoff_time) == fromisoformat(alert.timestamp) > cutoff_time

\* Lines 270-273: the alerts of a history that are kept.
RECURSIVE Recent24h(_, _)
Recent24h(history, cutoff_time) ==
    IF history = <<>> THEN <<>>
    ELSE IF Retained(Head(history), cutoff_time)
         THEN <<Head(history)>> \o Recent24h(Tail(history), cutoff_time)
         ELSE Recent24h(Tail(history), cutoff_time)

\* check_alerts, lines 233-275: the manager afterwards and the alerts returned.
check_alerts(manager, summary, before) ==
    [alert_manager |->
         [alert_history |-> Recent24h(manager.alert_history \o Alerts(summary, before),
                                      NowAt(ClockReads, before) - DayTicks)],
     alerts |-> Alerts(summary, before)]

NoCheck == [emitted |-> <<>>, checks |-> 0, at |-> 0]

AlertInit ==
    /\ alert_manager = AlertManager
    /\ alert_log = NoCheck

\* One call alert_manager.check_alerts(). The log keeps every alert emitted so far, the
\* number of calls, and the time the last call read for its cutoff.
CheckAlerts(summary, before) ==
    /\ alert_log.checks < MaxCalls
    /\ NowAt(ClockReads, before) <= MaxTime
    /\ \E done \in {check_alerts(alert_manager, summary, before)} :
           /\ alert_manager' = done.alert_manager
           /\ alert_log' = [emitted |-> alert_log.emitted \o done.alerts,
                            checks |-> alert_log.checks + 1,
                            at |-> NowAt(ClockReads, before)]
    /\ now' = NowAt(ClockReads, before)
    /\ UNCHANGED <<max_requests, requests, lim_last, allowed_log, last_call, thr,
                   gateVars, textVars, pipeVars, libVars, metVars>>

\* datetime.now() advances between two checks.
AlertTick ==
    /\ now < MaxTime
    /\ now' = now + 1
    /\ UNCHANGED <<max_requests, requests, lim_last, allowed_log, last_call, thr,
                   gateVars, textVars, pipeVars, libVars, metVars, alertVars>>

AlertNext ==
    \/ AlertTick
    \/ \E summary \in Summaries, before \in 0..ClockReads : CheckAlerts(summary, before)

LimIdle == LimInit /\ max_requests = MaxRequests
LimRest ==
    /\ max_requests = MaxRequests
    /\ requests = <<>>
    /\ lim_last = NoCall
    /\ allowed_log = [k \in Keys |-> <<>>]
    /\ last_call = [k \in Keys |-> [time |-> -1, allowed |-> FALSE]]
GateIdle == app_config = <<>> /\ gate_last = NoGateCall
PipeIdle ==
    /\ config = ConfigObject(None, MaxRequests, DefaultMaxFileSizeMB, EnvAllowedExtensions)
    /\ limiter = [e \in Endpoints |-> [max_requests |-> MaxRequests, requests |-> <<>>]]
    /\ resp = NoResponse

Init == PipeInit /\ LimRest /\ ThreadInit /\ gate_last = NoGateCall /\ TextInit /\ LibInit /\ MetInit /\ AlertInit

Next == PipeNext

LimiterInit == LimInit /\ ThreadInit /\ GateIdle /\ TextInit /\ PipeIdle /\ LibInit /\ MetInit /\ AlertInit
ConcurrentInit == ConcInit /\ GateIdle /\ TextInit /\ PipeIdle /\ LibInit /\ MetInit /\ AlertInit
GateOnlyInit == LimIdle /\ ThreadInit /\ GateInit /\ TextInit /\ PipeIdle /\ LibInit /\ MetInit /\ AlertInit
TextOnlyInit == LimIdle /\ ThreadInit /\ GateIdle /\ TextInit /\ PipeIdle /\ LibInit /\ MetInit /\ AlertInit
MetricsInit == LimIdle /\ ThreadInit /\ GateIdle /\ TextInit /\ PipeIdle /\ LibInit /\ MetInit /\ AlertInit
LibraryInit ==
    /\ LimIdle /\ ThreadInit /\ TextInit /\ LibInit /\ MetInit /\ AlertInit
    /\ config \in LibConfigs
    /\ app_config = DictUpdate(FlaskDefaults, Vars(config))
    /\ gate_last = NoGateCall
    /\ limiter = [e \in Endpoints |->
                     [max_requests |-> GetAttr(config, "RATE_LIMIT_PER_MINUTE"),
                      requests |-> <<>>]]
    /\ resp = NoResponse

SpecLimiter == LimiterInit /\ [][LimNext]_vars

SpecConcurrent == ConcurrentInit /\ [][ConcNext]_vars

SpecGate == GateOnlyInit /\ [][GateNext]_vars

SpecText == TextOnlyInit /\ [][TextNext]_vars

SpecLibrary == LibraryInit /\ [][LibNext]_vars

SpecMetrics == MetricsInit /\ [][MetNext]_vars

SpecMetricsConcurrent == MetricsInit /\ [][MetConcNext]_vars

SpecAlerts == MetricsInit /\ [][AlertNext]_vars

SpecMonitor == MetricsInit /\ [][MonitorNext]_vars

SpecTwoClients == Init /\ [][TwoClientNext]_vars

Spec == Init /\ [][Next]_vars

(***************************************************************************)
(* Properties                                                              *)
(***************************************************************************)

\* C1 (as stated): a call for a key that already has max_requests allowed calls within
\* the trailing window is denied, and a call made after the window has fully elapsed
\* since the key's previous call is allowed, whatever max_requests is.
C1_DeniedAtLimitAllowedAfterWindow ==
    lim_last.key # "none" =>
        /\ (lim_last.recent >= max_requests => ~lim_last.allowed)
        /\ (lim_last.idle => lim_last.allowed)

\* C1 (amended): a call for a key that already has max_requests allowed calls within
\* the trailing window is denied; and when max_requests >= 1, a call made more than
\* window_seconds after the key's previous call is allowed.
C1_DeniedAtLimitAllowedAfterWindowIfPositive ==
    lim_last.key # "none" =>
        /\ (lim_last.recent >= max_requests => ~lim_last.allowed)
        /\ (lim_last.idle /\ max_requests >= 1 => lim_last.allowed)

\* A key whose previous call was denied at the limit is allowed again once the window
\* has elapsed.
C1_Witness ==
    /\ lim_last.key # "none"
    /\ max_requests >= 1
    /\ lim_last.prev_denied
    /\ lim_last.idle
    /\ lim_last.allowed

\* C2: the number of timestamps stored for each key is at most max_requests.
C2_StoredCountAtMostMax ==
    \A k \in DOMAIN requests : Len(requests[k]) <= max_requests

\* A key is full (max_requests >= 1 timestamps stored) and its last call was denied.
C2_Witness ==
    /\ lim_last.key \in DOMAIN requests
    /\ max_requests >= 1
    /\ Len(requests[lim_last.key]) = max_requests
    /\ ~lim_last.allowed

\* C3: the decision is atomic per key: the stored count of a key never exceeds
\* max_requests, and two calls for the same key that both started at the same time with
\* exactly one slot free are never both allowed.
C3_DecisionAtomicPerKey ==
    /\ \A k \in DOMAIN requests : Len(requests[k]) <= max_requests
    /\ \A a, b \in Threads :
          (/\ a # b
           /\ thr[a].pc = "done" /\ thr[b].pc = "done"
           /\ thr[a].key = thr[b].key /\ thr[a].t = thr[b].t
           /\ thr[a].free = 1 /\ thr[b].free = 1)
          => ~(thr[a].result = "allowed" /\ thr[b].result = "allowed")

\* The key the access gate compares with, when one is configured.
ConfiguredKey == DictGet(app_config, "API_KEY", None)

\* The key the process was configured with (Config.API_KEY).
ProcessKey == GetAttr(config, "API_KEY")

\* C4: when the process is configured with a non-empty API key, the key the access gate
\* reads from the application configuration is that key, and every request to a
\* classify endpoint whose credential is not that key (and that the rate limit let
\* through) is answered 401 and nothing is classified.
C4_ConfiguredKeyEnforced ==
    (resp.called /\ Truthy(ProcessKey)) =>
        /\ ConfiguredKey = ProcessKey
        /\ (provided_key(resp.headers) # ProcessKey /\ resp.answer.status # 429) =>
               /\ resp.answer.status = 401
               /\ resp.answer.label = "none"

\* The pipeline stage a decorator or a function of the code is.
StageOf(name) ==
    CASE name = "rate_limit" -> "SlidingWindowLimiter"
      [] name = "require_api_key" -> "AccessGate"
      [] name \in {"sanitize_text_input", "validate_file"} -> "InputValidator"
      [] name \in {"classify_text_content", "classify_image_content"} -> "CategoryScorer"
      [] OTHER -> "none"

\* The stages the last request ran through, in the order it entered them.
RECURSIVE StagesOf(_)
StagesOf(names) ==
    IF names = <<>> THEN <<>>
    ELSE IF StageOf(Head(names)) = "none" THEN StagesOf(Tail(names))
    ELSE <<StageOf(Head(names))>> \o StagesOf(Tail(names))

IsPrefix(a, b) == Len(a) <= Len(b) /\ SubSeq(b, 1, Len(a)) = a

\* C7 (as stated): the stages of a request run in the order AccessGate,
\* SlidingWindowLimiter, InputValidator, CategoryScorer, and the limiter records a
\* timestamp only for a request that passed the access gate before.
C7_GateBeforeLimiter ==
    resp.called =>
        /\ IsPrefix(StagesOf(resp.answer.stages),
                    <<"AccessGate", "SlidingWindowLimiter", "InputValidator", "CategoryScorer">>)
        /\ (resp.recorded => Head(StagesOf(resp.answer.stages)) = "AccessGate")

\* C7 (amended): the stages of a request run in the order SlidingWindowLimiter,
\* AccessGate, InputValidator, CategoryScorer, and the access gate is consulted only for
\* a request the limiter allowed and recorded a timestamp for.
C7_LimiterBeforeGate ==
    resp.called =>
        /\ IsPrefix(StagesOf(resp.answer.stages),
                    <<"SlidingWindowLimiter", "AccessGate", "InputValidator", "CategoryScorer">>)
        /\ ("require_api_key" \in {resp.answer.stages[i] : i \in DOMAIN resp.answer.stages}
               => resp.recorded)

\* A request went through all four stages and was classified.
C7_Witness ==
    /\ resp.called
    /\ resp.recorded
    /\ resp.answer.status = 200
    /\ StagesOf(resp.answer.stages) =
           <<"SlidingWindowLimiter", "AccessGate", "InputValidator", "CategoryScorer">>

\* C5: when no API key is configured (no API_KEY entry, None or the empty string), the
\* gate passes every request, whatever credential it carries, including none.
C5_NoKeyConfiguredAcceptsAll ==
    (gate_last.called /\ ~Truthy(ConfiguredKey)) => gate_last.passed

\* Without a configured key, a request carrying no credential at all went through.
C5_Witness ==
    /\ gate_last.called
    /\ ~Truthy(ConfiguredKey)
    /\ gate_last.headers = [x_api_key |-> None, authorization |-> None]
    /\ gate_last.passed

\* The credential of the last request, when it was sent in one header only.
SentOnly(cred) ==
    \/ gate_last.headers = [x_api_key |-> cred, authorization |-> None]
    \/ gate_last.headers = [x_api_key |-> None, authorization |-> cred]

\* C6: with configured key "k1", no credential is rejected, "Bearer k1" is accepted,
\* "k1" is accepted and "k2" is rejected.
C6_K1Examples ==
    (gate_last.called /\ ConfiguredKey = Some(<<"k", "1">>)) =>
        /\ (SentOnly(None) => ~gate_last.passed)
        /\ (SentOnly(Some(<<"B", "e", "a", "r", "e", "r", " ", "k", "1">>)) => gate_last.passed)
        /\ (SentOnly(Some(<<"k", "1">>)) => gate_last.passed)
        /\ (SentOnly(Some(<<"k", "2">>)) => ~gate_last.passed)

\* With configured key "k1", the request with Authorization: Bearer k1 was accepted.
C6_Witness ==
    /\ gate_last.called
    /\ ConfiguredKey = Some(<<"k", "1">>)
    /\ gate_last.headers = [x_api_key |-> None, authorization |-> Some(<<"B", "e", "a", "r", "e", "r", " ", "k", "1">>)]
    /\ gate_last.passed

\* C8: the value sanitize_text_input returns contains none of the denylisted substrings,
\* neither in lower case nor in upper case.
C8_NoDenylistedSubstring ==
    text_out.done =>
        \A i \in 1..Len(dangerous_patterns) :
            /\ ~Contains(text_out.sanitized, Lower(dangerous_patterns[i]))
            /\ ~Contains(text_out.sanitized, Upper(dangerous_patterns[i]))

\* The text consists of whitespace only (or of nothing).
Blank(t) == \A i \in 1..Len(t) : t[i] \in Whitespace

\* C9: text validation rejects every empty or whitespace-only input, and every accepted
\* sanitized value is non-empty, at most 1000 characters long and has no leading or
\* trailing whitespace.
C9_TextValidation ==
    text_out.done =>
        /\ (Blank(text) => ~text_out.accepted)
        /\ (text_out.accepted =>
               /\ text_out.sanitized # <<>>
               /\ Len(text_out.sanitized) <= MaxTextLength
               /\ text_out.sanitized[1] \notin Whitespace
               /\ text_out.sanitized[Len(text_out.sanitized)] \notin Whitespace)

\* No keyword of any category occurs in the lower-cased text.
NoKeywordOccurs(t) ==
    LET text_lower == Lower(t) IN
    \A c \in DOMAIN WASTE_KEYWORDS : \A i \in 1..Len(WASTE_KEYWORDS[c]) :
        ~Contains(text_lower, WASTE_KEYWORDS[c][i])

\* C10: for every text in which no keyword of any category occurs (the text taken in
\* lower case, as the scorer takes it), classify_text_content returns (recyclable, 0.30).
C10_NoKeywordFallback ==
    (text_out.done /\ text_out.accepted /\ NoKeywordOccurs(text_out.sanitized)) =>
        /\ text_out.label = "recyclable"
        /\ text_out.confidence = 30

\* The text "xyz" was classified, and as (recyclable, 0.30).
C10_Witness ==
    /\ text_out.done
    /\ text_out.accepted
    /\ text_out.sanitized = <<"x", "y", "z">>
    /\ text_out.label = "recyclable"
    /\ text_out.confidence = 30
\* C11: for every input text, the confidence classify_text_content returns lies in
\* [0.30, 0.95].
C11_ConfidenceRange ==
    (text_out.done /\ text_out.accepted) =>
        /\ Fallback.confidence <= text_out.confidence
        /\ text_out.confidence <= Round2(ConfidenceCap)

\* A text with keywords of two categories was classified, with a confidence strictly
\* between the two ends of the range.
C11_Witness ==
    /\ text_out.done
    /\ text_out.accepted
    /\ text_out.sanitized = <<"p", "l", "a", "s", "t", "i", "c", " ", "b", "a", "t", "t", "e", "r", "y">>
    /\ Fallback.confidence < text_out.confidence
    /\ text_out.confidence < Round2(ConfidenceCap)

\* The text path returned for the text t, which it classified.
Classified(t) == text_out.done /\ text_out.accepted /\ text_out.sanitized = t

\* C12: classify_text_content returns recyclable with confidence >= 0.60 for
\* "plastic bottle", recyclable for "aluminum can", hazardous for "battery acid" and
\* biodegradable for "banana peel".
C12_Examples ==
    /\ Classified(<<"p", "l", "a", "s", "t", "i", "c", " ", "b", "o", "t", "t", "l", "e">>) =>
           text_out.label = "recyclable" /\ text_out.confidence >= Round2(ConfidenceBase)
    /\ Classified(<<"a", "l", "u", "m", "i", "n", "u", "m", " ", "c", "a", "n">>) => text_out.label = "recyclable"
    /\ Classified(<<"b", "a", "t", "t", "e", "r", "y", " ", "a", "c", "i", "d">>) => text_out.label = "hazardous"
    /\ Classified(<<"b", "a", "n", "a", "n", "a", " ", "p", "e", "e", "l">>) => text_out.label = "biodegradable"

\* "banana peel" was classified, as biodegradable.
C12_Witness == Classified(<<"b", "a", "n", "a", "n", "a", " ", "p", "e", "e", "l">>) /\ text_out.label = "biodegradable"

\* The total score of a category by the weights as numbers, in tenths: the sum of
\* len(keyword) + 10 over the first n keywords of the category that occur.
RECURSIVE Total10(_, _, _)
Total10(category, text_lower, n) ==
    IF n = 0 THEN 0
    ELSE Total10(category, text_lower, n - 1)
           + (IF Contains(text_lower, WASTE_KEYWORDS[category][n])
              THEN Len(WASTE_KEYWORDS[category][n]) + 10 ELSE 0)

Totals10(t) ==
    LET text_lower == Lower(t) IN
    [recyclable |-> Total10("recyclable", text_lower, Len(WASTE_KEYWORDS.recyclable)),
     biodegradable |->
         Total10("biodegradable", text_lower, Len(WASTE_KEYWORDS.biodegradable)),
     hazardous |-> Total10("hazardous", text_lower, Len(WASTE_KEYWORDS.hazardous))]

\* The categories that have the greatest total.
Greatest(totals) ==
    {c \in DOMAIN totals : \A d \in DOMAIN totals : totals[d] <= totals[c]}

\* The first category of the priority order that is in the set.
FirstOf(cats) ==
    Categories[CHOOSE i \in 1..Len(Categories) :
                   /\ Categories[i] \in cats
                   /\ \A j \in 1..(i - 1) : Categories[j] \notin cats]

\* C13: when two or more categories share the greatest nonzero total score,
\* classify_text_content returns the one that comes first in the order recyclable,
\* biodegradable, hazardous.
C13_TieByPriority ==
    (text_out.done /\ text_out.accepted) =>
        LET totals == Totals10(text_out.sanitized)
            greatest == Greatest(totals)
        IN (Cardinality(greatest) >= 2 /\ \E c \in greatest : totals[c] > 0) =>
               text_out.label = FirstOf(greatest)
\* A scorer was called directly.
ScorerCalled == lib_call.fn \in {"classify_text_content", "classify_image_content"}

\* The call failed inside the scorer's try block.
FailedInside ==
    \/ lib_call.fn = "classify_text_content" /\ TextRaises(lib_call.text)
    \/ lib_call.fn = "classify_image_content" /\ ImageRaises(lib_call.module, lib_call.img)

\* C14: every classification result the text scorer and the image scorer return, the
\* fallback results included, has a category in {recyclable, biodegradable, hazardous}
\* and a confidence in [0, 1].
C14_ResultDomain ==
    (ScorerCalled /\ ~lib_call.raised) =>
        /\ \E i \in DOMAIN Categories : lib_call.label = Categories[i]
        /\ 0 <= lib_call.confidence
        /\ lib_call.confidence <= 100

\* The image scorer returned its fallback result, for an object without a size.
C14_Witness ==
    /\ lib_call.fn = "classify_image_content"
    /\ ~lib_call.img.has_size
    /\ ~lib_call.raised
    /\ lib_call.label = "recyclable"
    /\ lib_call.confidence = 30

\* The checks of validate_file in the order of the claim, each with its reason; a
\* check is TRUE when the file fails it.
FileChecks(file) ==
    <<[fails |-> ~FileTruthy(file), reason |-> "No file provided"],
      [fails |-> file.filename = <<>>, reason |-> "No file selected"],
      [fails |-> ~ExtensionAllowed(file.filename, DefaultAllowedExtensions),
       reason |-> "File type not allowed"],
      [fails |-> file.size > DefaultMaxSize, reason |-> "File too large"],
      [fails |-> ~file.image, reason |-> "Invalid image file"],
      [fails |-> file.width * file.height > MaxPixels,
       reason |-> "Image dimensions too large"]>>

\* C15: validate_file runs its checks in the order presence, non-empty filename,
\* extension, byte size, decodability, pixel area, and returns the reason of the first
\* check that fails; a file with a disallowed extension or without a '.' in its name is
\* rejected whatever its content, and a file of more than 100,000,000 pixels is rejected.
C15_ValidationOrder ==
    lib_call.fn = "validate_file" =>
        LET file == lib_call.file
            checks == FileChecks(file)
        IN /\ \A i \in DOMAIN checks :
                  (checks[i].fails /\ \A j \in 1..(i - 1) : ~checks[j].fails) =>
                      lib_call.reason = checks[i].reason
           /\ (\A i \in DOMAIN checks : ~checks[i].fails) => lib_call.reason = ""
           /\ (FileTruthy(file) /\ file.filename # <<>>
                   /\ ~ExtensionAllowed(file.filename, DefaultAllowedExtensions)) =>
                  lib_call.reason = "File type not allowed"
           /\ (FileTruthy(file) /\ file.width * file.height > MaxPixels) =>
                  lib_call.reason # ""

\* A .txt file that is also too large and not an image was rejected for its extension.
C15_Witness ==
    /\ lib_call.fn = "validate_file"
    /\ lib_call.file.filename = <<"b", "i", "g", ".", "t", "x", "t">>
    /\ lib_call.file.size > DefaultMaxSize
    /\ ~lib_call.file.image
    /\ lib_call.reason = "File type not allowed"

\* C19: whenever text or image scoring fails inside the scorer (a text that is not a
\* str, an image object without usable dimensions), the scorer returns exactly
\* (recyclable, 0.30) and no error reaches the caller.
C19_FailureNonFatal ==
    FailedInside =>
        /\ ~lib_call.raised
        /\ lib_call.label = "recyclable"
        /\ lib_call.confidence = 30

\* The text scorer was called with None and returned (recyclable, 0.30).
C19_Witness ==
    /\ lib_call.fn = "classify_text_content"
    /\ lib_call.text = PyNone
    /\ ~lib_call.raised
    /\ lib_call.label = "recyclable"
    /\ lib_call.confidence = 30
\* validate_file was called in the application, with a named file.
ValidatedInApp ==
    /\ lib_call.fn = "validate_file"
    /\ lib_call.module = "app_production"
    /\ FileTruthy(lib_call.file)
    /\ lib_call.file.filename # <<>>

\* C16: file validation enforces the values the process was configured with: a file
\* longer than Config.MAX_FILE_SIZE_BYTES is rejected, and a file passes the extension
\* step only if its extension is in Config.ALLOWED_EXTENSIONS.
C16_ConfiguredLimitsEnforced ==
    ValidatedInApp =>
        /\ lib_call.file.size > GetAttr(config, "MAX_FILE_SIZE_BYTES") =>
               lib_call.reason # ""
        /\ lib_call.reason \notin {"No file provided", "No file selected",
                                   "File type not allowed"} =>
               ExtensionAllowed(lib_call.file.filename,
                                GetAttr(config, "ALLOWED_EXTENSIONS"))

\* C20: a POST to /classify-text whose body is not valid JSON, or whose JSON has no
\* 'text' field, or whose text is empty, is answered with status 400, never with 500
\* and never with a classification.
C20_BadTextBodyIs400 ==
    (/\ resp.called
     /\ resp.endpoint = "classify_text_endpoint"
     /\ resp.answer.status \notin {401, 429}
     /\ \/ resp.body.kind \in {"invalid", "no_text"}
        \/ resp.body.kind = "text" /\ resp.body.text = <<>>) =>
        /\ resp.answer.status = 400
        /\ resp.answer.label = "none"
\* C17: after any sequence of record_request calls, the metrics summary has
\* total_errors <= total_requests, and error_rate_percent is 0 whenever total_requests
\* is 0.
C17_ErrorsWithinRequests ==
    LET summary == get_metrics_summary(metrics) IN
    /\ summary.total_errors <= summary.total_requests
    /\ summary.total_requests = 0 => summary.error_rate_percent = 0

\* Two requests were recorded, one of them an error: the error rate is 50.0 percent.
C17_Witness ==
    LET summary == get_metrics_summary(metrics) IN
    /\ summary.total_requests = 2
    /\ summary.total_errors = 1
    /\ summary.error_rate_percent = 5000

\* C18: when record_request and record_classification calls run concurrently, the read
\* and the write of each counter increment interleaved, the final request, error and
\* classification counts equal those the same calls produce when run one after another.
C18_NoLostUpdates ==
    (\A t \in MetThreads : mthr[t].pc = "idle") =>
        /\ metrics.request_count = serial.request_count
        /\ metrics.error_count = serial.error_count
        /\ metrics.classification_stats = serial.classification_stats

\* C21: an is_allowed call that returns false leaves the limiter state unchanged: the
\* keys present and the timestamps stored for every key are the same after the call
\* as before it, for every max_requests including 0.
C21_DeniedLeavesStateUnchanged ==
    [][\A key \in Keys :
          (IsAllowedCall(key) /\ ~is_allowed(requests, key, now, max_requests))
              => requests' = requests]_vars

\* The timestamps stored for a key.
Stored(key) == {requests[key][i] : i \in 1..Len(Deque(requests, key))}

\* C22 as stated: in every reachable state, every timestamp t stored for every key
\* satisfies now - window_seconds <= t <= now.
C22_TimestampsWithinWindow ==
    \A key \in DOMAIN requests : \A t \in Stored(key) :
        now - window_seconds <= t /\ t <= now

\* C22: no stored timestamp lies in the future, and right after an is_allowed call for
\* a key (the clock has not advanced since) every timestamp stored for that key
\* satisfies now - window_seconds <= t <= now.
C22_TimestampsWithinWindowAfterCall ==
    /\ \A key \in DOMAIN requests : \A t \in Stored(key) : t <= now
    /\ (lim_last.key \in Keys /\ lim_last.time = now)
           => \A t \in Stored(lim_last.key) : now - window_seconds <= t

\* A call has pruned the expired timestamp of its key and stored its own, while the
\* other key still holds a timestamp older than the window.
C22_Witness ==
    /\ max_requests = 1
    /\ lim_last.key = "ip1" /\ lim_last.time = now /\ lim_last.idle /\ lim_last.allowed
    /\ Deque(requests, "ip1") = <<now>>
    /\ \E t \in Stored("ip2") : t < now - window_seconds

\* The alerts of a sequence, as a set.
Range(seq) == {seq[i] : i \in 1..Len(seq)}

\* An alert's timestamp lies within the 24 hours before the time t.
Within24h(alert, t) ==
    /\ fromisoformat(alert.timestamp) <= t
    /\ t - fromisoformat(alert.timestamp) < DayTicks

\* C23: after every check_alerts call, alert_history holds only alerts whose timestamp
\* lies within the trailing 24 hours, and it holds every alert a check has emitted
\* within the trailing 24 hours, in the order they were emitted.
C23_HistoryIsTrailingDay ==
    alert_log.checks > 0 =>
        LET keep == {i \in 1..Len(alert_log.emitted) :
                        Within24h(alert_log.emitted[i], alert_log.at)}
        IN /\ Len(alert_manager.alert_history) = Cardinality(keep)
           /\ \A i \in keep :
                  alert_manager.alert_history[Cardinality({j \in keep : j <= i})]
                      = alert_log.emitted[i]

\* A check has dropped the alerts of an earlier check that had become a day old, and
\* kept those of a later check next to its own.
C23_Witness ==
    /\ alert_log.checks = MaxCalls
    /\ Len(alert_manager.alert_history) >= 2
    /\ Len(alert_manager.alert_history) < Len(alert_log.emitted)
    /\ \E a, b \in Range(alert_manager.alert_history) : a.timestamp # b.timestamp
    /\ \E a \in Range(alert_log.emitted) :
           alert_log.at - fromisoformat(a.timestamp) = DayTicks

\* C24: for every key and every closed interval of length window_seconds, at most
\* max_requests is_allowed calls for the key were allowed with a timestamp inside it;
\* a timestamp exactly window_seconds old still counts. (allowed_log holds the allowed
\* calls of the interval from now - window_seconds to now.)
C24_HardCap ==
    \A key \in Keys :
        Cardinality({i \in 1..Len(allowed_log[key]) :
                        /\ now - window_seconds <= allowed_log[key][i]
                        /\ allowed_log[key][i] <= now}) <= max_requests

\* A call is denied because of an allowed call exactly window_seconds before it.
C24_Witness ==
    /\ max_requests > 0
    /\ lim_last.key \in Keys /\ lim_last.time = now /\ ~lim_last.allowed
    /\ Len(allowed_log[lim_last.key]) = max_requests
    /\ allowed_log[lim_last.key][1] = now - window_seconds

\* s without the prefix p, when s starts with p.
RemovePrefix(s, p) == IF StartsAt(s, p, 1) THEN SubSeq(s, Len(p) + 1, Len(s)) ELSE s

\* A header carries the key: its value, less a leading "Bearer ", is the key.
Carries(header, api_key) ==
    header.some /\ RemovePrefix(header.val, <<"B", "e", "a", "r", "e", "r", " ">>) = api_key.val

\* C25: with an API key configured, a request is authorized exactly when the X-API-Key
\* header or the Authorization header, a leading "Bearer " stripped and nothing else,
\* equals the configured key; a valid credential in either header suffices.
C25_AuthorizedIffEitherHeaderMatches ==
    (gate_last.called /\ Truthy(ConfiguredKey)) =>
        (gate_last.passed <=>
            \/ Carries(gate_last.headers.x_api_key, ConfiguredKey)
            \/ Carries(gate_last.headers.authorization, ConfiguredKey))

\* The stages the last request entered, and the last of them.
Entered == StagesOf(resp.answer.stages)
LastEntered == Entered[Len(Entered)]

\* C26: for every request to a classify endpoint, scoring is invoked only after the
\* limiter admitted the request, the access gate authorized it and validation accepted
\* it; a request rejected at a stage gets the one outcome of that stage (429 from the
\* limiter, 401 from the gate, 400 from validation), no stage is entered twice and no
\* later stage is reached.
C26_ScoringOnlyAfterAdmission ==
    resp.called =>
        /\ \A i, j \in DOMAIN Entered : Entered[i] = Entered[j] => i = j
        /\ resp.answer.status \in {200, 429, 401, 400}
        /\ resp.answer.status = 200 <=>
               (Entered # <<>> /\ LastEntered = "CategoryScorer")
        /\ resp.answer.status = 200 =>
               \A stage \in {"SlidingWindowLimiter", "AccessGate", "InputValidator"} :
                   \E i \in DOMAIN Entered : Entered[i] = stage
        /\ resp.answer.status = 429 => LastEntered = "SlidingWindowLimiter"
        /\ resp.answer.status = 401 => LastEntered = "AccessGate"
        /\ resp.answer.status = 400 => LastEntered \in {"AccessGate", "InputValidator"}
        /\ resp.answer.status # 200 => resp.answer.label = "none"

\* C27: for every key the stored timestamps are in non-decreasing order from front to
\* back in every reachable state, also when calls for the same key run concurrently,
\* each reading the clock before it appends.
C27_TimestampsSorted ==
    \A key \in DOMAIN requests :
        \A i, j \in 1..Len(requests[key]) : i <= j => requests[key][i] <= requests[key][j]

\* n / d rounded to the nearest integer, a tie to the even one.
RoundedQuotient(n, d) ==
    LET q == n \div d
        r == n % d
    IN IF 2 * r > d \/ (2 * r = d /\ q % 2 = 1) THEN q + 1 ELSE q

\* min(0.95, 0.60 + (max_total / sum_of_all_totals) * 0.35) as a number, rounded to two
\* decimals, in hundredths.
ConfidenceOf(max_total, sum_of_all_totals) ==
    LET exact == RoundedQuotient(60 * sum_of_all_totals + 35 * max_total,
                                 sum_of_all_totals)
    IN IF exact > 95 THEN 95 ELSE exact

\* The text classify_text_content was called with directly, when it is a str and the
\* call returned from the try block.
TextScored ==
    lib_call.fn = "classify_text_content" /\ ~TextRaises(lib_call.text) /\ ~lib_call.raised

\* The result of the last direct call.
Result == [label |-> lib_call.label, confidence |-> lib_call.confidence]

\* C28: each category's total is the sum of len(keyword)/10 + 1 over its keywords that
\* occur in the lower-cased text, each counted once; when some total is nonzero the
\* category returned has the greatest total and the confidence returned is
\* min(0.95, 0.60 + (max_total / sum_of_all_totals) * 0.35) rounded to two decimals;
\* the upper-case and the lower-case variant of the text give the same result.
C28_TotalsAndConfidenceFormula ==
    TextScored =>
        LET totals == Totals10(lib_call.text.val)
            sum_of_all_totals == totals.recyclable + totals.biodegradable + totals.hazardous
        IN /\ sum_of_all_totals > 0 =>
                  /\ lib_call.label \in Greatest(totals)
                  /\ lib_call.confidence
                         = ConfidenceOf(totals[lib_call.label], sum_of_all_totals)
           /\ classify_text_content(Upper(lib_call.text.val)) = Result
           /\ classify_text_content(Lower(lib_call.text.val)) = Result

\* C28 (amended): as stated, except that the confidence is the expression evaluated in
\* floating point before it is rounded: where the number
\* 0.60 + (max_total / sum_of_all_totals) * 0.35 lies exactly halfway between two
\* hundredths, the rounding error of the float decides which of the two is returned.
C28_TotalsAndConfidenceFormulaUpToTies ==
    TextScored =>
        LET totals == Totals10(lib_call.text.val)
            sum_of_all_totals == totals.recyclable + totals.biodegradable + totals.hazardous
            hundredths == 60 * sum_of_all_totals + 35 * totals[lib_call.label]
        IN /\ sum_of_all_totals > 0 =>
                  /\ lib_call.label \in Greatest(totals)
                  /\ \/ lib_call.confidence
                            = ConfidenceOf(totals[lib_call.label], sum_of_all_totals)
                     \/ /\ 2 * (hundredths % sum_of_all_totals) = sum_of_all_totals
                        /\ lib_call.confidence \in
                               {hundredths \div sum_of_all_totals,
                                (hundredths \div sum_of_all_totals) + 1}
           /\ classify_text_content(Upper(lib_call.text.val)) = Result
           /\ classify_text_content(Lower(lib_call.text.val)) = Result

\* "Can OIL" was scored: both totals are 1.3, the number is 0.775, and 0.77 is
\* returned.
C28_Witness ==
    /\ TextScored
    /\ lib_call.text.val = <<"C", "a", "n", " ", "O", "I", "L">>
    /\ lib_call.label = "recyclable"
    /\ lib_call.confidence = 77

\* C29: for every request wrapped by monitor_requests exactly one request is recorded,
\* and an error is recorded exactly when the outcome of the handler has a status code
\* >= 400, whether the handler raised, returned a response object or returned a
\* (body, status) pair, under the key of that status code and the endpoint.
C29_ErrorRecordedIffStatusIsError ==
    [][\A route \in MonitoredRoutes, outcome \in Outcomes, response_time \in ResponseTimes :
          MonitorRequest(route, outcome, response_time) =>
              LET key == Key(Str(outcome.status), EndpointOr(route.endpoint)) IN
              /\ SumValues(metrics'.request_count) = SumValues(metrics.request_count) + 1
              /\ IF outcome.status >= 400
                 THEN /\ CounterGet(metrics'.error_count, key)
                            = CounterGet(metrics.error_count, key) + 1
                      /\ SumValues(metrics'.error_count)
                            = SumValues(metrics.error_count) + 1
                 ELSE metrics'.error_count = metrics.error_count]_vars

\* The timestamps of key in the limiter of endpoint that lie in the window ending at t.
InWindow(endpoint, key, t) ==
    {i \in 1..Len(Deque(limiter[endpoint].requests, key)) :
        limiter[endpoint].requests[key][i] >= t - window_seconds}

\* C30: rate-limit state is isolated per key and per decorated endpoint. A request of
\* the client with key k to an endpoint changes only k's timestamps in that endpoint's
\* limiter: the other endpoint's limiter, the other keys' timestamps and the decision
\* for every other key or endpoint stay as they were, and the request is admitted
\* exactly when fewer than max_requests of k's timestamps in that endpoint's limiter
\* lie in the window, whatever k sent to the other endpoint.
C30_IsolatedPerKeyAndEndpoint ==
    [][\A req \in TwoClientRequests :
          Request(req) =>
              LET e == req.endpoint
                  k == req.remote_addr
              IN  /\ \A e2 \in Endpoints \ {e} : limiter'[e2] = limiter[e2]
                  /\ limiter'[e].max_requests = limiter[e].max_requests
                  /\ \A k2 \in Keys \ {k} :
                        /\ k2 \in DOMAIN limiter'[e].requests
                              <=> k2 \in DOMAIN limiter[e].requests
                        /\ Deque(limiter'[e].requests, k2) = Deque(limiter[e].requests, k2)
                  /\ \A e2 \in Endpoints, k2 \in Keys :
                        <<e2, k2>> # <<e, k>> =>
                            (is_allowed(limiter'[e2].requests, k2, now',
                                        limiter'[e2].max_requests)
                               <=> is_allowed(limiter[e2].requests, k2, now,
                                              limiter[e2].max_requests))
                  /\ resp'.answer.status # 429
                        <=> Cardinality(InWindow(e, k, now)) < limiter[e].max_requests]_vars

\* The client ip1 was admitted max_requests times by each endpoint in one window, the
\* last of them just now, while ip2 has sent only to one endpoint and is still admitted
\* by both.
C30_Witness ==
    /\ resp.called /\ resp.client_ip = "ip1" /\ resp.answer.status = 200
    /\ \A e \in Endpoints :
          /\ limiter[e].max_requests > 1
          /\ Cardinality(InWindow(e, "ip1", now)) = limiter[e].max_requests
          /\ is_allowed(limiter[e].requests, "ip2", now, limiter[e].max_requests)
    /\ Deque(limiter["classify_text_endpoint"].requests, "ip2") # <<>>
    /\ Deque(limiter["classify_image_endpoint"].requests, "ip2") = <<>>
====
